---- MODULE Spec2Model ----
(***************************************************************************)
(* The orchestration loop of agents/leader.py (LearnableLeaderAgent),      *)
(* its legality gate, its state merge and the policy's response parsing.   *)
(*                                                                         *)
(* Python values are encoded uniformly:                                    *)
(*   - a dict is a function; the empty dict is << >>;                      *)
(*   - an Optional payload is << >> (None) or << d >> (the dict d);        *)
(*   - True / False / None stored inside dicts are the strings             *)
(*     "True" / "False" / "None";                                          *)
(*   - costs are counted in hundredths (0.01 is 1).                        *)
(***************************************************************************)
EXTENDS Integers, Sequences, FiniteSets, TLC

VARIABLES
    state,           \* the AgentState dict of process(): query, context, history, step_count, accumulated_reward
    max_steps,       \* LearnableLeaderAgent.max_steps
    trajectory,      \* the local list `trajectory` of process()
    available,       \* the local `available` of the current iteration
    response_str,    \* the last raw answer of the decision model
    action,          \* the local `action` of the current iteration
    obs,             \* the local `obs` of the current iteration
    result,          \* the dict returned by process()
    action_history,  \* LLMPolicy.action_history, the decision log
    llm_calls,       \* number of calls of llm.generate made by the policy
    skill_calls,     \* number of calls of a skill's execute made by the loop
    summarizer,      \* SummarizeSkill.agent: strict_mode, and the CheckResult and SummarizerResult of its last execute
    skill_trace,     \* the calls a skill made to its collaborators and their answers (recorded by the skill harness)
    collector,       \* SearchSkill.agent of SEARCH_DB and of SEARCH_WEB: rag_engine, rag_ready, and the engines constructed
    pc               \* position of process(): "loop", "exec", "merge", "done", "raised"; "gate", "fold" in the harness

vars == << state, max_steps, trajectory, available, response_str, action, obs,
           result, action_history, llm_calls, skill_calls, summarizer, skill_trace, collector, pc >>

(***************************************************************************)
(* Bounds of the model.                                                    *)
(***************************************************************************)
MaxStepsBound == 5      \* largest step budget max_steps explored
MaxItems == 1           \* number of items of a plan
MaxFuzzSteps == 2       \* merges folded in one run of the merge harness

(***************************************************************************)
(* Python helpers.                                                         *)
(***************************************************************************)
EmptyDict == << >>

None == << >>

Some(d) == << d >>

PyTrue == "True"

PyFalse == "False"

PyNone == "None"

Range(s) == { s[i] : i \in DOMAIN s }

\* d.update(e): every key of e is written to d, the other keys of d stay
DictUpdate(d, e) ==
    [ k \in (DOMAIN d) \cup (DOMAIN e) |-> IF k \in DOMAIN e THEN e[k] ELSE d[k] ]

\* d.get(k, default)
DictGet(d, k, default) == IF k \in DOMAIN d THEN d[k] ELSE default

\* truth value of an Optional[dict]: None and {} are falsy
Truthy(data) == data # None /\ data[1] # EmptyDict

(***************************************************************************)
(* ActionType, Action, Observation, AgentState.                            *)
(***************************************************************************)
REWRITE == "rewrite"

PLAN == "plan"

CHASE == "chase"

SEARCH_DB == "search_db"

SEARCH_WEB == "search_web"

SUMMARIZE == "summarize"

FINISH == "finish"

ActionType == { REWRITE, PLAN, CHASE, SEARCH_DB, SEARCH_WEB, SUMMARIZE, FINISH }

\* Action.parameters is whatever JSON value the model put under "parameters":
\* a mapping, or some other value (null, a string, a list)
Mapping(d) == [ mapping |-> TRUE, val |-> d ]

NonMapping == [ mapping |-> FALSE, val |-> EmptyDict ]

Action(type, parameters, reason) ==
    [ type |-> type, parameters |-> parameters, reason |-> reason ]

Observation(success, data, cost, error_msg) ==
    [ success |-> success, data |-> data, cost |-> cost, error_msg |-> error_msg ]

AgentState(query, context, history, step_count, accumulated_reward) ==
    [ query |-> query, context |-> context, history |-> history,
      step_count |-> step_count, accumulated_reward |-> accumulated_reward ]

(***************************************************************************)
(* LearnableLeaderAgent._get_available_actions                             *)
(***************************************************************************)
\* mutants of the gate: SUMMARIZE offered without collected_data; CHASE decided by
\* the value of integrity_ok; the suggested_question branch left out
GetAvailableActions_AlwaysSummarize(st) ==
    LET ctx == st.context IN
    IF "rewritten_query" \notin DOMAIN ctx THEN << REWRITE >>
    ELSE IF "integrity_ok" \notin DOMAIN ctx /\ "suggested_question" \notin DOMAIN ctx
         THEN << CHASE >>
    ELSE IF "suggested_question" \in DOMAIN ctx THEN << FINISH >>
    ELSE IF "plan" \notin DOMAIN ctx THEN << PLAN >>
    ELSE << SEARCH_DB, SEARCH_WEB, SUMMARIZE >>

GetAvailableActions_ByValue(st) ==
    LET ctx == st.context IN
    IF "rewritten_query" \notin DOMAIN ctx THEN << REWRITE >>
    ELSE IF DictGet(ctx, "integrity_ok", PyFalse) # PyTrue /\ "suggested_question" \notin DOMAIN ctx
         THEN << CHASE >>
    ELSE IF "suggested_question" \in DOMAIN ctx THEN << FINISH >>
    ELSE IF "plan" \notin DOMAIN ctx THEN << PLAN >>
    ELSE LET options == << SEARCH_DB, SEARCH_WEB >> IN
         IF "collected_data" \in DOMAIN ctx THEN Append(options, SUMMARIZE) ELSE options

GetAvailableActions_NoQuestionBranch(st) ==
    LET ctx == st.context IN
    IF "rewritten_query" \notin DOMAIN ctx THEN << REWRITE >>
    ELSE IF "integrity_ok" \notin DOMAIN ctx /\ "suggested_question" \notin DOMAIN ctx
         THEN << CHASE >>
    ELSE IF "plan" \notin DOMAIN ctx THEN << PLAN >>
    ELSE LET options == << SEARCH_DB, SEARCH_WEB >> IN
         IF "collected_data" \in DOMAIN ctx THEN Append(options, SUMMARIZE) ELSE options

GetAvailableActions(st) ==
    LET ctx == st.context IN
    IF "rewritten_query" \notin DOMAIN ctx THEN << REWRITE >>
    ELSE IF "integrity_ok" \notin DOMAIN ctx /\ "suggested_question" \notin DOMAIN ctx
         THEN << CHASE >>
    ELSE IF "suggested_question" \in DOMAIN ctx THEN << FINISH >>
    ELSE IF "plan" \notin DOMAIN ctx THEN << PLAN >>
    ELSE LET options == << SEARCH_DB, SEARCH_WEB >> IN
         IF "collected_data" \in DOMAIN ctx THEN Append(options, SUMMARIZE) ELSE options

(***************************************************************************)
(* LearnableLeaderAgent._update_state                                      *)
(***************************************************************************)
\* mutants of the merge: the payload replaces the context; the collected_data
\* payload replaces context.collected_data
MergeContext_Replace(ctx, o) ==
    IF o.success /\ Truthy(o.data) THEN o.data[1] ELSE ctx

MergeContext_Overwrite(ctx, o) ==
    IF o.success /\ Truthy(o.data)
    THEN LET data == o.data[1]
             ctx1 == IF "collected_data" \notin DOMAIN ctx
                     THEN DictUpdate(ctx, [ collected_data |-> EmptyDict ])
                     ELSE ctx
         IN  IF "collected_data" \in DOMAIN data
             THEN [ ctx1 EXCEPT !["collected_data"] = data["collected_data"] ]
             ELSE DictUpdate(ctx1, data)
    ELSE ctx

\* mutant of the merge: the payload of a failed Outcome is merged too
MergeContext_IgnoreSuccess(ctx, o) ==
    IF Truthy(o.data)
    THEN LET data == o.data[1]
             ctx1 == IF "collected_data" \notin DOMAIN ctx
                     THEN DictUpdate(ctx, [ collected_data |-> EmptyDict ])
                     ELSE ctx
         IN  IF "collected_data" \in DOMAIN data
             THEN [ ctx1 EXCEPT !["collected_data"] = DictUpdate(@, data["collected_data"]) ]
             ELSE DictUpdate(ctx1, data)
    ELSE ctx

\* mutant of the merge: an item already in context.collected_data keeps its entry
MergeContext_FirstWriter(ctx, o) ==
    IF o.success /\ Truthy(o.data)
    THEN LET data == o.data[1]
             ctx1 == IF "collected_data" \notin DOMAIN ctx
                     THEN DictUpdate(ctx, [ collected_data |-> EmptyDict ])
                     ELSE ctx
         IN  IF "collected_data" \in DOMAIN data
             THEN [ ctx1 EXCEPT !["collected_data"] = DictUpdate(data["collected_data"], @) ]
             ELSE DictUpdate(ctx1, data)
    ELSE ctx

\* the context after the merge of obs (lines 539-546)
MergeContext(ctx, o) ==
    IF o.success /\ Truthy(o.data)
    THEN LET data == o.data[1]
             ctx1 == IF "collected_data" \notin DOMAIN ctx
                     THEN DictUpdate(ctx, [ collected_data |-> EmptyDict ])
                     ELSE ctx
         IN  IF "collected_data" \in DOMAIN data
             THEN [ ctx1 EXCEPT !["collected_data"] = DictUpdate(@, data["collected_data"]) ]
             ELSE DictUpdate(ctx1, data)
    ELSE ctx

\* mutant of _update_state: a failed Outcome does not count as a step
UpdateState_CountSuccess(st, act, o) ==
    LET n == IF o.success THEN st.step_count + 1 ELSE st.step_count IN
    [ st EXCEPT !.step_count = n,
                !.context = MergeContext(st.context, o),
                !.history = Append(@, [ step |-> n, action |-> act.type, success |-> o.success ]) ]

\* mutant of _update_state: a failed Outcome leaves no record in history
UpdateState_SkipFailed(st, act, o) ==
    LET n == st.step_count + 1 IN
    [ st EXCEPT !.step_count = n,
                !.context = MergeContext(st.context, o),
                !.history = IF o.success
                            THEN Append(@, [ step |-> n, action |-> act.type, success |-> o.success ])
                            ELSE @ ]

UpdateState(st, act, o) ==
    LET n == st.step_count + 1 IN
    [ st EXCEPT !.step_count = n,
                !.context = MergeContext(st.context, o),
                !.history = Append(@, [ step |-> n, action |-> act.type, success |-> o.success ]) ]

(***************************************************************************)
(* The decision model's answers and LLMPolicy._parse_response.             *)
(* An answer is: text that is no JSON; JSON that is no object; or a JSON   *)
(* object with an "action" (a name, or absent), with "parameters" and a    *)
(* "reason".                                                               *)
(***************************************************************************)
ReasonParseFailed == "parse failed"              \* the literal of line 444

ReasonIllegalAction == "model chose an illegal action"   \* the literal of line 437

ReasonModel == "model reason"

ReasonApiError == "API Error"

UnknownActionName == "dance"

\* the "parameters" of an answer naming action a: absent or {} for every name;
\* a non-mapping value for every action a skill runs for; force_web for the
\* actions whose skill reads it
Params(a) ==
    { Mapping(EmptyDict) }
    \cup (IF a \in ActionType \ { FINISH } THEN { NonMapping } ELSE {})
    \cup (IF a \in { SEARCH_DB, SEARCH_WEB } THEN { Mapping([ force_web |-> PyTrue ]) } ELSE {})

NotJson == [ json |-> FALSE, object |-> FALSE, action |-> PyNone,
             parameters |-> Mapping(EmptyDict), reason |-> ReasonModel ]

NotObject == [ json |-> TRUE, object |-> FALSE, action |-> PyNone,
               parameters |-> Mapping(EmptyDict), reason |-> ReasonModel ]

JsonObject(a, p, r) == [ json |-> TRUE, object |-> TRUE, action |-> a, parameters |-> p, reason |-> r ]

\* OpenAILLM.generate: the answer of the completion call, or, when the call
\* throws, the finish object built in the except branch
ApiErrorResponse == JsonObject(FINISH, Mapping(EmptyDict), ReasonApiError)

Generate ==
    { NotJson, NotObject, ApiErrorResponse }
    \cup UNION { { JsonObject(a, p, ReasonModel) : p \in Params(a) } :
                   a \in ActionType \cup { UnknownActionName, PyNone } }

\* mutant of _parse_response: the legality test is left out
ParseResponse_NoLegalityTest(response, available_actions) ==
    IF ~response.json \/ ~response.object
    THEN Action(FINISH, Mapping(EmptyDict), ReasonParseFailed)
    ELSE IF response.action \notin ActionType
    THEN Action(FINISH, Mapping(EmptyDict), ReasonParseFailed)
    ELSE Action(response.action, response.parameters, response.reason)

ParseResponse(response, available_actions) ==
    IF ~response.json \/ ~response.object
    THEN Action(FINISH, Mapping(EmptyDict), ReasonParseFailed)
    ELSE IF response.action \notin ActionType
    THEN Action(FINISH, Mapping(EmptyDict), ReasonParseFailed)
    ELSE IF response.action \notin Range(available_actions)
    THEN Action(FINISH, Mapping(EmptyDict), ReasonIllegalAction)
    ELSE Action(response.action, response.parameters, response.reason)

(***************************************************************************)
(* The result of process() (lines 503-517).                                *)
(***************************************************************************)
NotGenerated == "not generated"                  \* the default of line 505

\* mutant of the result: the pending question is not looked at
MakeResult_NoNeedInput(st, traj) ==
    [ status |-> "success",
      final_report |-> DictGet(st.context, "report", NotGenerated),
      trajectory |-> traj,
      total_reward |-> st.accumulated_reward ]

MakeResult(st, traj) ==
    LET base == [ status |-> "success",
                  final_report |-> DictGet(st.context, "report", NotGenerated),
                  trajectory |-> traj,
                  total_reward |-> st.accumulated_reward ]
    IN  IF "suggested_question" \in DOMAIN st.context
        THEN DictUpdate(base,
                 [ status |-> "need_input",
                   clarification_question |-> st.context["suggested_question"],
                   clarification_options |-> DictGet(st.context, "suggested_options", "[]") ])
        ELSE base

(***************************************************************************)
(* The skills.  Each execute is the set of its possible returns, one per   *)
(* behaviour of the collaborator it wraps: an Observation, or an exception *)
(* that leaves execute ([ raised |-> TRUE ]).                              *)
(***************************************************************************)
Returns(o) == [ raised |-> FALSE, obs |-> o ]

NoObservation == Observation(FALSE, None, 0, PyNone)

Raises == [ raised |-> TRUE, obs |-> NoObservation ]

\* the except branch of every skill: Observation(success=False, data=None, error_msg=str(e))
CaughtError == Observation(FALSE, None, 0, "exception")

\* skill_trace: the answer of the skill's template call, and for the search the
\* readiness of the RAG engine, the plan handed to the collector and the run of
\* each of its items; NoTrace before a call
NoTrace == [ answer |-> EmptyDict, rag_ready |-> FALSE, plan |-> EmptyDict, items |-> << >> ]

\* LearnableLeaderAgent.__init__ registers one SearchSkill() under SEARCH_DB and
\* another under SEARCH_WEB, each with its own InformationCollectionAgent: no
\* engine yet, rag_ready False (collector.py lines 30-31); constructed counts the
\* MoutaiRAGEngine() calls that returned an engine
Collectors ==
    [ t \in { SEARCH_DB, SEARCH_WEB } |->
        [ rag_engine |-> None, rag_ready |-> FALSE, constructed |-> 0 ] ]

\* the template executor threw instead of answering (_load_markdown, line 82)
Thrown == [ thrown |-> "FileNotFoundError" ]

\* one way a call of execute can go: what it asked and got, and what it returned
Run(trace, ret) == [ trace |-> trace, ret |-> ret ]

UserQuery == "Q1"

RewrittenQuery == "Q1'"

EntitiesEmpty == "[]"

EntitiesFound == "[e1]"

IntentEmpty == "{}"

IntentNamed == "{intent_name: ask}"

IntentNonMapping == "ask"          \* step1_intent given as a bare string

\* the answers of execute_skill for the rewrite template: the error object of a
\* failed model call, or the model's JSON
RewriterAnswers ==
    { [ error |-> "timeout" ] }
    \cup { [ step5_rewritten_query |-> RewrittenQuery, step2_entities |-> EntitiesFound,
             step1_intent |-> i ] : i \in { IntentNamed, IntentNonMapping } }

\* answers that are JSON objects without a rewritten query
PartialRewriterAnswers ==
    { [ content |-> "text" ],
      [ step2_entities |-> EntitiesFound, step1_intent |-> IntentNamed ] }

\* FinancialQueryRewriter.rewrite: {} on an error answer, else the model's JSON
Rewrite(answer) == IF "error" \in DOMAIN answer THEN EmptyDict ELSE answer

RewriterResults == { Rewrite(a) : a \in RewriterAnswers }

\* mutant of RewriteSkill.execute: the query parameter is not looked at
RewriteObservation_StateQuery(params, st, res) ==
    Observation(TRUE,
        Some([ rewritten_query |-> DictGet(res, "step5_rewritten_query", st.query),
               entities |-> DictGet(res, "step2_entities", EntitiesEmpty),
               intent |-> DictGet(res, "step1_intent", IntentEmpty) ]),
        1, PyNone)

\* RewriteSkill.execute after self.agent.rewrite returned res (lines 165, 172-185)
RewriteObservation(params, st, res) ==
    LET query == DictGet(params.val, "query", st.query) IN
    Observation(TRUE,
        Some([ rewritten_query |-> DictGet(res, "step5_rewritten_query", query),
               entities |-> DictGet(res, "step2_entities", EntitiesEmpty),
               intent |-> DictGet(res, "step1_intent", IntentEmpty) ]),
        1, PyNone)

\* the runs of RewriteSkill.execute over the given answers of the rewrite call
RewriteSkillRuns(params, st, answers) ==
    IF ~params.mapping THEN { Run(NoTrace, Raises) }          \* params.get, line 165
    ELSE { Run([ NoTrace EXCEPT !.answer = Thrown ], Returns(CaughtError)) }
         \cup { Run([ NoTrace EXCEPT !.answer = a ],
                    Returns(RewriteObservation(params, st, Rewrite(a)))) : a \in answers }

RewriteSkillExecute(params, st) ==
    { r.ret : r \in RewriteSkillRuns(params, st, RewriterAnswers) }

\* the answers of execute_skill for the integrity-check template: a verdict, or
\* the error object of a failed model call
ChaserAnswers ==
    { [ is_sufficient |-> PyTrue ],
      [ is_sufficient |-> PyFalse, suggested_question |-> "which year?",
        suggested_options |-> "[2023, 2024]" ],
      [ is_sufficient |-> PyFalse, suggested_question |-> "which year?" ],
      [ is_sufficient |-> PyFalse ],
      [ error |-> "timeout" ] }

\* ChaserAgent.check_and_chase: the ChaseResult built from the checker's answer
CheckAndChase(answer) ==
    IF DictGet(answer, "is_sufficient", PyNone) = PyTrue
    THEN [ can_proceed |-> TRUE, question |-> PyNone, options |-> "[]" ]
    ELSE [ can_proceed |-> FALSE,
           question |-> DictGet(answer, "suggested_question", PyNone),
           options |-> DictGet(answer, "suggested_options", "[]") ]

ChaseResults == { CheckAndChase(a) : a \in ChaserAnswers }

\* mutant of ChaseSkill.execute: the question branch is reported as a failure
ChaseObservation_FailOnQuestion(res) ==
    IF res.can_proceed
    THEN Observation(TRUE, Some([ integrity_ok |-> PyTrue ]), 1, PyNone)
    ELSE Observation(FALSE,
             Some([ integrity_ok |-> PyFalse,
                    suggested_question |-> res.question,
                    suggested_options |-> res.options,
                    is_wait_user |-> PyTrue ]),
             1, PyNone)

\* ChaseSkill.execute after self.agent.check_and_chase returned res (lines 131-149)
ChaseObservation(res) ==
    IF res.can_proceed
    THEN Observation(TRUE, Some([ integrity_ok |-> PyTrue ]), 1, PyNone)
    ELSE Observation(TRUE,
             Some([ integrity_ok |-> PyFalse,
                    suggested_question |-> res.question,
                    suggested_options |-> res.options,
                    is_wait_user |-> PyTrue ]),
             1, PyNone)

\* the runs of ChaseSkill.execute over the given answers of the integrity check
ChaseSkillRuns(params, st, answers) ==
    LET ctx == st.context IN
    IF DictGet(ctx, "intent", IntentEmpty) = IntentNonMapping
    THEN { Run(NoTrace, Raises) }                            \* .get on a non-mapping, line 123
    ELSE { Run([ NoTrace EXCEPT !.answer = Thrown ], Returns(CaughtError)) }
         \cup { Run([ NoTrace EXCEPT !.answer = a ],
                    Returns(ChaseObservation(CheckAndChase(a)))) : a \in answers }

ChaseSkillExecute(params, st) ==
    { r.ret : r \in ChaseSkillRuns(params, st, ChaserAnswers) }

\* plan items: a description (1..MaxItems) and a preferred source
Items == 1 .. MaxItems

Sources == { "rag", "web_only" }

PlanItem(desc, source) == [ desc |-> desc, source |-> source ]

\* the JSON the planning template returns: a plan with required_info, or an error object
Plans ==
    { [ error |-> "json_parse_fail" ] }
    \cup UNION { { [ required_info |-> [ i \in 1 .. n |-> PlanItem(i, src[i]) ] ] :
                     src \in [ 1 .. n -> Sources ] } : n \in 0 .. MaxItems }

\* PlanningSkill.execute after execute_skill returned plan (line 215)
PlanObservation(plan) == Observation(TRUE, Some([ plan |-> plan ]), 2, PyNone)

\* the runs of PlanningSkill.execute over the given answers of the planning call
PlanningSkillRuns(params, st, answers) ==
    { Run([ NoTrace EXCEPT !.answer = Thrown ], Returns(CaughtError)) }
    \cup { Run([ NoTrace EXCEPT !.answer = plan ], Returns(PlanObservation(plan))) :
             plan \in answers }

PlanningSkillExecute(params, st) ==
    { r.ret : r \in PlanningSkillRuns(params, st, Plans) }

\* mutant of the force_web branch: the items keep their source
ForceWeb_KeepSource(plan) == [ required_info |-> plan.required_info ]

\* the plan SearchSkill hands to the collector when force_web is set (lines 239-246)
ForceWeb(plan) ==
    [ required_info |->
        [ i \in DOMAIN plan.required_info |->
            DictUpdate(plan.required_info[i], [ source |-> "web_only" ]) ] ]

RagEntry == [ data |-> "rag text", source |-> "RAG" ]

WebEntry == [ data |-> "web text", source |-> "Web" ]

\* InformationCollectionAgent.execute: one entry per plan item; local retrieval
\* is tried only for an item whose source names rag, the web search otherwise
CollectorResults(plan) ==
    LET tasks == plan.required_info
        descs == { tasks[i].desc : i \in DOMAIN tasks }
        pref(d) == { tasks[i].source : i \in { j \in DOMAIN tasks : tasks[j].desc = d } }
    IN  { vd \in [ descs -> { RagEntry, WebEntry } ] :
            \A d \in descs : vd[d] = RagEntry => "rag" \in pref(d) }

RagDetails(validated_data) ==
    [ rag_count |-> Cardinality(DOMAIN validated_data), web_count |-> 0,
      total |-> Cardinality(DOMAIN validated_data) ]

\* mutant of SearchSkill.execute: the Outcome is successful whatever was collected
SearchObservation_AlwaysSuccess(validated_data) ==
    Observation(TRUE,
        Some([ collected_data |-> validated_data, rag_details |-> RagDetails(validated_data) ]),
        5, PyNone)

\* SearchSkill.execute after self.agent.execute returned validated_data (lines 291-313)
SearchObservation(validated_data) ==
    Observation(Cardinality(DOMAIN validated_data) > 0,
        Some([ collected_data |-> validated_data, rag_details |-> RagDetails(validated_data) ]),
        5, PyNone)

\* the plan handed to the collector (lines 239-246)
EffectivePlan(params, plan) ==
    IF DictGet(params.val, "force_web", PyFalse) = PyTrue THEN ForceWeb(plan) ELSE plan

SearchSkillExecute(params, st) ==
    LET ctx == st.context
        plan == DictGet(ctx, "plan", EmptyDict)
    IN  IF DOMAIN plan = {} \/ "required_info" \notin DOMAIN plan
        THEN { Returns(Observation(FALSE, None, 0, "no valid plan")) }
        ELSE IF ~params.mapping THEN { Raises }              \* params.get, line 239
        ELSE { Returns(CaughtError) }
             \cup { Returns(SearchObservation(vd)) :
                      vd \in CollectorResults(EffectivePlan(params, plan)) }

(***************************************************************************)
(* InformationCollectionAgent.execute item by item: what the RAG engine,   *)
(* the quality evaluation and the web search answer, and which of them are *)
(* called.  The texts stand for the classes the code tells apart.          *)
(***************************************************************************)
RagFound == "rag text"

RagNotFound == "not found in the knowledge base"     \* a text with the not-found mark

RagError == "x retrieval error"                      \* a text with the error mark

RagOutcomes == { RagFound, RagNotFound, RagError, "" }

\* the test of line 88 of collector.py
RagUsable(rag_data) == rag_data \notin { "", RagNotFound, RagError }

EvalAnswers == { [ is_sufficient |-> PyTrue ], [ is_sufficient |-> PyFalse ], [ error |-> "timeout" ] }

WebFound == "web text"

WebNothing == "nothing relevant found"               \* the sentinel of web_search_tool.py line 52

WebFailure == "web search failed, try again later"   \* the sentinel of web_search_tool.py line 59

\* SimpleWebSearchTool.search: the joined results, or one of its two sentinels
WebOutcomes == { WebFound, WebNothing, WebFailure }

\* "rag" in source_pref
PrefersRag(source_pref) == source_pref \in { "rag", "rag_then_web" }

\* mutant of the collector: the web search runs for every item
CollectItem_WebAlways(req, rag_ready, rag_data, eval_res, web_data) ==
    LET source_pref == DictGet(req, "source", "rag")
        try_rag == PrefersRag(source_pref) /\ rag_ready
        try_eval == try_rag /\ RagUsable(rag_data)
        is_valid == try_eval /\ DictGet(eval_res, "is_sufficient", PyNone) = PyTrue
    IN  [ desc |-> req.desc,
          calls |-> (IF try_rag THEN << "rag" >> ELSE << >>)
                    \o (IF try_eval THEN << "eval" >> ELSE << >>) \o << "web" >>,
          rag |-> IF try_rag THEN Some(rag_data) ELSE None,
          eval |-> IF try_eval THEN Some(eval_res) ELSE None,
          web |-> Some(web_data),
          entry |-> IF is_valid THEN [ data |-> rag_data, source |-> "RAG" ]
                    ELSE IF web_data # "" THEN [ data |-> web_data, source |-> "Web" ]
                    ELSE [ data |-> "not found", source |-> "Failed" ] ]

\* one iteration of the loop of InformationCollectionAgent.execute (lines 69-112):
\* the calls made for the item req, in order, what each call answered, and the
\* entry stored under its desc
CollectItem(req, rag_ready, rag_data, eval_res, web_data) ==
    LET source_pref == DictGet(req, "source", "rag")
        try_rag == PrefersRag(source_pref) /\ rag_ready
        try_eval == try_rag /\ RagUsable(rag_data)
        is_valid == try_eval /\ DictGet(eval_res, "is_sufficient", PyNone) = PyTrue
    IN  [ desc |-> req.desc,
          calls |-> (IF try_rag THEN << "rag" >> ELSE << >>)
                    \o (IF try_eval THEN << "eval" >> ELSE << >>)
                    \o (IF ~is_valid THEN << "web" >> ELSE << >>),
          rag |-> IF try_rag THEN Some(rag_data) ELSE None,
          eval |-> IF try_eval THEN Some(eval_res) ELSE None,
          web |-> IF ~is_valid THEN Some(web_data) ELSE None,
          entry |-> IF is_valid THEN [ data |-> rag_data, source |-> "RAG" ]
                    ELSE IF web_data # "" THEN [ data |-> web_data, source |-> "Web" ]
                    ELSE [ data |-> "not found", source |-> "Failed" ] ]

ItemRuns(req, rag_ready) ==
    { CollectItem(req, rag_ready, r, e, w) :
        r \in RagOutcomes, e \in EvalAnswers, w \in WebOutcomes }

\* a plan item that is no JSON object (the planner's JSON is not validated)
MalformedItem == [ nonmapping |-> "item" ]

IsMappingItem(req) == "nonmapping" \notin DOMAIN req

WellFormed(plan) ==
    \A i \in DOMAIN plan.required_info : IsMappingItem(plan.required_info[i])

\* the runs of the whole loop: one item run per task, in plan order
CollectorRuns(plan, rag_ready) ==
    LET tasks == DictGet(plan, "required_info", << >>)
        all == UNION { ItemRuns(tasks[i], rag_ready) : i \in DOMAIN tasks }
    IN  { runs \in [ DOMAIN tasks -> all ] :
            \A i \in DOMAIN tasks : runs[i] \in ItemRuns(tasks[i], rag_ready) }

\* results: results[desc] is the entry of the last item with that desc
ValidatedData(runs) ==
    [ d \in { runs[i].desc : i \in DOMAIN runs } |->
        LET last == CHOOSE i \in DOMAIN runs :
                      runs[i].desc = d /\ \A j \in DOMAIN runs : runs[j].desc = d => j <= i
        IN  runs[last].entry ]

\* the runs of SearchSkill.execute over the collector's runs, the RAG engine
\* having loaded or not
SearchSkillRuns(params, st) ==
    LET ctx == st.context
        plan == DictGet(ctx, "plan", EmptyDict)
    IN  IF DOMAIN plan = {} \/ "required_info" \notin DOMAIN plan
        THEN { Run(NoTrace, Returns(Observation(FALSE, None, 0, "no valid plan"))) }
        ELSE IF ~params.mapping THEN { Run(NoTrace, Raises) }    \* params.get, line 239
        ELSE IF ~WellFormed(plan)
        THEN IF DictGet(params.val, "force_web", PyFalse) = PyTrue
             THEN { Run(NoTrace, Raises) }                       \* item.copy(), line 243
             ELSE { Run([ NoTrace EXCEPT !.plan = plan ], Returns(CaughtError)) }  \* req["desc"]
        ELSE LET used == EffectivePlan(params, plan) IN
             { Run([ NoTrace EXCEPT !.answer = Thrown, !.plan = used ], Returns(CaughtError)) }
             \cup UNION { { Run([ NoTrace EXCEPT !.rag_ready = ready, !.plan = used, !.items = runs ],
                                Returns(SearchObservation(ValidatedData(runs)))) :
                              runs \in CollectorRuns(used, ready) } : ready \in BOOLEAN }

\* the JSON objects the check skill (summarizer_check.md) can answer: a verdict
\* with its score, missing items and caveats; an unknown verdict; a score that
\* is no number; the error object of execute_skill
CheckAnswers ==
    { [ sufficiency_verdict |-> "sufficient", sufficiency_score |-> "0.9" ],
      [ sufficiency_verdict |-> "partial", sufficiency_score |-> "0.6", caveats |-> "c1" ],
      [ sufficiency_verdict |-> "partial", sufficiency_score |-> "0.6" ],
      [ sufficiency_verdict |-> "insufficient", sufficiency_score |-> "0.2",
        missing_critical_items |-> "[m1]" ],
      [ sufficiency_verdict |-> "unknown", sufficiency_score |-> "0.5" ],
      [ sufficiency_verdict |-> "sufficient", sufficiency_score |-> PyNone ],
      [ error |-> "timeout" ] }

\* the JSON objects the synthesis skill (summarizer_synthesis.md) can answer
SynthAnswers ==
    { [ executive_summary |-> "R1" ],
      [ executive_summary |-> "R1", data_gaps |-> "c1" ],
      [ error |-> "timeout" ] }

NoCheck == [ verdict |-> PyNone, missing |-> PyNone, caveats |-> PyNone ]

NoResult == [ status |-> PyNone, report |-> EmptyDict, caveats |-> PyNone, missing |-> PyNone ]

\* SummarizerAgent(strict_mode) before its first execute
SummarizerAgent(strict_mode) ==
    [ strict_mode |-> strict_mode, answer |-> EmptyDict, raised |-> FALSE,
      check_res |-> NoCheck, result |-> NoResult ]

\* float(res.get("sufficiency_score", 0.0)) throws on a score that is no number
ScoreRaises(res) == DictGet(res, "sufficiency_score", "0.0") = PyNone

\* SummarizerAgent._run_check: the CheckResult built from the check skill's answer
RunCheck(res) ==
    [ verdict |-> DictGet(res, "sufficiency_verdict", "insufficient"),
      missing |-> DictGet(res, "missing_critical_items", "[]"),
      caveats |-> DictGet(res, "caveats", PyNone) ]

NoCaveats == "none"                              \* the literal of line 51

DefaultCaveats == "partial data, for reference only"     \* the literal of line 62

\* mutant of the decision of SummarizerAgent.execute: loose mode reworks on partial too
ShouldRework_PartialReworks(strict_mode, check_res) ==
    check_res.verdict # "sufficient"

\* the decision of SummarizerAgent.execute (lines 53-60): rework or synthesis
ShouldRework(strict_mode, check_res) ==
    IF strict_mode THEN check_res.verdict # "sufficient"
    ELSE check_res.verdict = "insufficient"

\* final_caveats (lines 51, 61-62)
FinalCaveats(strict_mode, check_res) ==
    IF ~strict_mode /\ check_res.verdict = "partial"
    THEN IF check_res.caveats # PyNone THEN check_res.caveats ELSE DefaultCaveats
    ELSE NoCaveats

\* SummarizerAgent.execute: the agent after the call, with its CheckResult and
\* its SummarizerResult (or raised, when the score conversion throws)
SummarizerExecute(agent, check_answer, synth_answer) ==
    IF ScoreRaises(check_answer)
    THEN [ agent EXCEPT !.answer = check_answer, !.raised = TRUE,
                        !.check_res = NoCheck, !.result = NoResult ]
    ELSE LET check_res == RunCheck(check_answer) IN
         IF ShouldRework(agent.strict_mode, check_res)
         THEN [ agent EXCEPT !.answer = check_answer, !.raised = FALSE, !.check_res = check_res,
                             !.result = [ status |-> "fail", report |-> EmptyDict,
                                          caveats |-> PyNone, missing |-> check_res.missing ] ]
         ELSE [ agent EXCEPT !.answer = check_answer, !.raised = FALSE, !.check_res = check_res,
                             !.result = [ status |-> "success", report |-> synth_answer,
                                          caveats |-> FinalCaveats(agent.strict_mode, check_res),
                                          missing |-> PyNone ] ]

\* mutant of SummarizeSkill.execute: the successful Outcome has no is_complete
SummarizeObservation_NoComplete(agent) ==
    IF agent.raised THEN CaughtError
    ELSE LET res == agent.result IN
         IF res.status = "success"
         THEN Observation(TRUE,
                  Some([ report |-> DictGet(res.report, "executive_summary", PyNone) ]),
                  2, PyNone)
         ELSE Observation(FALSE, Some([ missing |-> res.missing ]), 1, "insufficient")

\* SummarizeSkill.execute after self.agent.execute (lines 345-363)
SummarizeObservation(agent) ==
    IF agent.raised THEN CaughtError
    ELSE LET res == agent.result IN
         IF res.status = "success"
         THEN Observation(TRUE,
                  Some([ report |-> DictGet(res.report, "executive_summary", PyNone),
                         is_complete |-> PyTrue ]),
                  2, PyNone)
         ELSE Observation(FALSE, Some([ missing |-> res.missing ]), 1, "insufficient")

\* the agents SummarizerAgent.execute can leave behind, one per pair of answers
SummarizerResults(agent) ==
    { SummarizerExecute(agent, c, s) : c \in CheckAnswers, s \in SynthAnswers }

SummarizeSkillExecute(params, st) ==
    { Returns(SummarizeObservation(a)) : a \in SummarizerResults(summarizer) }

(***************************************************************************)
(* LearnableLeaderAgent.process                                            *)
(***************************************************************************)
\* state.copy() is a shallow copy: query, step_count and accumulated_reward
\* are copied, context and history are the live objects of the run
ContextRef == "state.context"

HistoryRef == "state.history"

StateCopy(st) ==
    [ st EXCEPT !.context = ContextRef, !.history = HistoryRef ]

Init ==
    /\ state = AgentState(UserQuery, EmptyDict, << >>, 0, 0)
    /\ max_steps \in 1 .. MaxStepsBound
    /\ trajectory = << >>
    /\ available = << >>
    /\ response_str = NotJson
    /\ action = Action(FINISH, Mapping(EmptyDict), PyNone)
    /\ obs = NoObservation
    /\ result = EmptyDict
    /\ action_history = << >>
    /\ llm_calls = 0
    /\ skill_calls = 0
    /\ summarizer = SummarizerAgent(FALSE)
    /\ skill_trace = NoTrace
    /\ collector = Collectors
    /\ pc = "loop"

\* mutant of the test of line 482: FINISH does not leave the loop
IsFinish_Never(act) == FALSE

\* the test of line 482
IsFinish(act) == act.type = FINISH

\* the loop condition fails: the step budget is used up (line 474, then 503-517)
BudgetExit ==
    /\ pc = "loop"
    /\ ~(state.step_count < max_steps)
    /\ result' = MakeResult(state, trajectory)
    /\ pc' = "done"
    /\ UNCHANGED << state, max_steps, trajectory, available, response_str, action, obs,
                    action_history, llm_calls, skill_calls, summarizer, skill_trace, collector >>

\* lines 477-482: the gate, LLMPolicy.select_action on one of the given answers
\* of the model, and the break on FINISH
SelectActionOf(responses) ==
    /\ pc = "loop"
    /\ state.step_count < max_steps
    /\ \E response \in responses :
         LET avail == GetAvailableActions(state)
             act == ParseResponse(response, avail)
         IN  /\ available' = avail
             /\ response_str' = response
             /\ llm_calls' = llm_calls + 1
             /\ action' = act
             /\ action_history' = Append(action_history,
                                     [ action_label |-> act.type, reason |-> act.reason ])
             /\ IF IsFinish(act)
                THEN /\ result' = MakeResult(state, trajectory)
                     /\ pc' = "done"
                ELSE /\ result' = result
                     /\ pc' = "exec"
    /\ UNCHANGED << state, max_steps, trajectory, obs, skill_calls, summarizer, skill_trace, collector >>

SelectAction == SelectActionOf(Generate)

\* line 487: obs = await skill.execute(action.parameters, state)
Execute(returns) ==
    /\ pc = "exec"
    /\ skill_calls' = skill_calls + 1
    /\ \E r \in returns :
         IF r.raised
         THEN pc' = "raised" /\ obs' = obs
         ELSE pc' = "merge" /\ obs' = r.obs
    /\ UNCHANGED << state, max_steps, trajectory, available, response_str, action,
                    result, action_history, llm_calls >>

ExecuteRewrite ==
    /\ action.type = REWRITE
    /\ Execute(RewriteSkillExecute(action.parameters, state))
    /\ UNCHANGED << summarizer, skill_trace, collector >>

ExecuteChase ==
    /\ action.type = CHASE
    /\ Execute(ChaseSkillExecute(action.parameters, state))
    /\ UNCHANGED << summarizer, skill_trace, collector >>

ExecutePlan ==
    /\ action.type = PLAN
    /\ Execute(PlanningSkillExecute(action.parameters, state))
    /\ UNCHANGED << summarizer, skill_trace, collector >>

ExecuteSearch ==
    /\ action.type \in { SEARCH_DB, SEARCH_WEB }
    /\ Execute(SearchSkillExecute(action.parameters, state))
    /\ UNCHANGED << summarizer, skill_trace, collector >>

ExecuteSummarize ==
    /\ action.type = SUMMARIZE
    /\ \E a \in SummarizerResults(summarizer) :
         /\ summarizer' = a
         /\ Execute({ Returns(SummarizeObservation(a)) })
    /\ UNCHANGED << skill_trace, collector >>

\* mutant of the test of line 497: is_complete does not leave the loop
IsComplete_Never(o) == FALSE

\* the is_complete test of line 497
IsComplete(o) ==
    o.success /\ Truthy(o.data) /\ DictGet(o.data[1], "is_complete", PyNone) = PyTrue

\* lines 492-498: _update_state, the trajectory record, the is_complete exit
Merge ==
    /\ pc = "merge"
    /\ LET st == UpdateState(state, action, obs)
           traj == Append(trajectory, [ state |-> StateCopy(st), action |-> action, obs |-> obs ])
       IN  /\ state' = st
           /\ trajectory' = traj
           /\ IF IsComplete(obs)
              THEN /\ result' = MakeResult(st, traj)
                   /\ pc' = "done"
              ELSE /\ result' = result
                   /\ pc' = "loop"
    /\ UNCHANGED << max_steps, available, response_str, action, obs,
                    action_history, llm_calls, skill_calls, summarizer, skill_trace, collector >>

Next ==
    \/ BudgetExit
    \/ SelectAction
    \/ ExecuteRewrite
    \/ ExecuteChase
    \/ ExecutePlan
    \/ ExecuteSearch
    \/ ExecuteSummarize
    \/ Merge

Spec == Init /\ [][Next]_vars

(***************************************************************************)
(* Harness for _get_available_actions and _update_state as functions of    *)
(* their arguments: the RunState starts with any key set over FuzzKeys;    *)
(* each round evaluates the gate and then folds any Outcome into the       *)
(* state.  A payload holds at most a collected_data dict and one other     *)
(* field.                                                                  *)
(***************************************************************************)
FuzzKeys ==
    { "rewritten_query", "integrity_ok", "suggested_question", "plan", "report", "collected_data" }

FuzzItems == { "revenue 2023", "net profit 2023" }

FuzzValues(k) ==
    CASE k = "rewritten_query" -> { RewrittenQuery }
      [] k = "integrity_ok" -> { PyTrue, PyFalse }
      [] k = "suggested_question" -> { "which year?" }
      [] k = "plan" -> { [ required_info |-> << PlanItem(1, "rag") >> ] }
      [] k = "report" -> { "R1" }
      [] k = "collected_data" ->
            UNION { [ S -> { RagEntry, WebEntry } ] : S \in SUBSET FuzzItems }

RECURSIVE FuzzDicts(_)
FuzzDicts(K) ==
    IF K = {} THEN { EmptyDict }
    ELSE LET k == CHOOSE x \in K : TRUE IN
         { DictUpdate(d, [ x \in { k } |-> v ]) : d \in FuzzDicts(K \ { k }), v \in FuzzValues(k) }

FuzzContexts == UNION { FuzzDicts(K) : K \in SUBSET FuzzKeys }

FuzzPayloads ==
    UNION { FuzzDicts(K) :
              K \in { S \in SUBSET FuzzKeys : Cardinality(S \ { "collected_data" }) <= 1 } }

FuzzOutcomes ==
    { Observation(ok, data, 1, PyNone) :
        ok \in BOOLEAN, data \in { None } \cup { Some(p) : p \in FuzzPayloads } }

FuzzAction == Action(SEARCH_DB, Mapping(EmptyDict), ReasonModel)

\* the contexts a run of the harness starts with: collected_data, when present, is
\* still empty (its items come from the Outcomes folded in)
FuzzInitContexts ==
    { c \in FuzzContexts : "collected_data" \in DOMAIN c => c["collected_data"] = EmptyDict }

InitFuzz ==
    /\ state \in { AgentState(UserQuery, c, << >>, 0, 0) : c \in FuzzInitContexts }
    /\ max_steps = MaxFuzzSteps
    /\ trajectory = << >>
    /\ available = << >>
    /\ response_str = NotJson
    /\ action = FuzzAction
    /\ obs = NoObservation
    /\ result = EmptyDict
    /\ action_history = << >>
    /\ llm_calls = 0
    /\ skill_calls = 0
    /\ summarizer = SummarizerAgent(FALSE)
    /\ skill_trace = NoTrace
    /\ collector = Collectors
    /\ pc = "gate"

\* available = self._get_available_actions(state)
FuzzGate ==
    /\ pc = "gate"
    /\ available' = GetAvailableActions(state)
    /\ pc' = "fold"
    /\ UNCHANGED << state, max_steps, trajectory, response_str, action, obs, result,
                    action_history, llm_calls, skill_calls, summarizer, skill_trace, collector >>

\* self._update_state(state, action, obs)
FuzzMerge ==
    /\ pc = "fold"
    /\ state.step_count < max_steps
    /\ \E o \in FuzzOutcomes :
         /\ obs' = o
         /\ state' = UpdateState(state, action, o)
    /\ pc' = "gate"
    /\ UNCHANGED << max_steps, trajectory, available, response_str, action, result,
                    action_history, llm_calls, skill_calls, summarizer, skill_trace, collector >>

NextFuzz ==
    \/ FuzzGate
    \/ FuzzMerge

SpecFuzz == InitFuzz /\ [][NextFuzz]_vars

(***************************************************************************)
(* Harness for SummarizerAgent.execute and SummarizeSkill.execute as       *)
(* functions of the agent's mode and of the answers of the two skills the  *)
(* agent calls: the agent is built in strict or in loose mode, each round  *)
(* runs the skill on the context and folds its Outcome into the state.     *)
(***************************************************************************)
SummarizeContexts ==
    { [ rewritten_query |-> RewrittenQuery, integrity_ok |-> PyTrue,
        plan |-> [ required_info |-> << PlanItem(1, "rag") >> ], collected_data |-> cd ] :
        cd \in { EmptyDict } \cup { [ i \in Items |-> e ] : e \in { RagEntry, WebEntry } } }

InitSummarize ==
    /\ state \in { AgentState(UserQuery, c, << >>, 0, 0) : c \in SummarizeContexts }
    /\ max_steps = MaxFuzzSteps
    /\ trajectory = << >>
    /\ available = << >>
    /\ response_str = NotJson
    /\ action = Action(SUMMARIZE, Mapping(EmptyDict), ReasonModel)
    /\ obs = NoObservation
    /\ result = EmptyDict
    /\ action_history = << >>
    /\ llm_calls = 0
    /\ skill_calls = 0
    /\ summarizer \in { SummarizerAgent(strict_mode) : strict_mode \in BOOLEAN }
    /\ skill_trace = NoTrace
    /\ collector = Collectors
    /\ pc = "summarize"

\* obs = await skill.execute(action.parameters, state), the skill being SummarizeSkill
SummarizeCall ==
    /\ pc = "summarize"
    /\ state.step_count < max_steps
    /\ \E a \in SummarizerResults(summarizer) :
         /\ summarizer' = a
         /\ obs' = SummarizeObservation(a)
    /\ skill_calls' = skill_calls + 1
    /\ pc' = "absorb"
    /\ UNCHANGED << state, max_steps, trajectory, available, response_str, action, result,
                    action_history, llm_calls, skill_trace, collector >>

\* self._update_state(state, action, obs) and the is_complete test
SummarizeMerge ==
    /\ pc = "absorb"
    /\ state' = UpdateState(state, action, obs)
    /\ pc' = IF IsComplete(obs) THEN "done" ELSE "summarize"
    /\ UNCHANGED << max_steps, trajectory, available, response_str, action, obs, result,
                    action_history, llm_calls, skill_calls, summarizer, skill_trace, collector >>

NextSummarize ==
    \/ SummarizeCall
    \/ SummarizeMerge

SpecSummarize == InitSummarize /\ [][NextSummarize]_vars

(***************************************************************************)
(* main(): the clarification loop around process().  The query is the list *)
(* of its parts, the question asked first and the answers appended to it   *)
(* (main joins them with a blank).  The model names the first or the last  *)
(* legal action, the rewriter and the planner answer, the integrity check  *)
(* answers sufficient or asks a question; the user answers or quits.       *)
(***************************************************************************)
MaxRounds == 4

MaxChaseRounds == 3                  \* ChaserAgent(max_chase_rounds=3)

MainAnswers == { "A1", "A2" }

\* f"{current_query} {supplement}"
Concat(current_query, supplement) == Append(current_query, supplement)

MainResponses(st) ==
    LET avail == GetAvailableActions(st) IN
    { JsonObject(avail[i], Mapping(EmptyDict), ReasonModel) : i \in { 1, Len(avail) } }

MainRewriterAnswers ==
    { [ step5_rewritten_query |-> RewrittenQuery, step2_entities |-> EntitiesFound,
        step1_intent |-> IntentNamed ] }

MainChaserAnswers ==
    { [ is_sufficient |-> PyTrue ],
      [ is_sufficient |-> PyFalse, suggested_question |-> "which year?",
        suggested_options |-> "[2023, 2024]" ] }

MainPlans == { [ required_info |-> << PlanItem(1, "rag") >> ] }

\* agent = LearnableLeaderAgent(policy, max_steps=...); current_query = user_input;
\* the first process(current_query) with its new RunState
InitMain ==
    /\ state = AgentState(<< UserQuery >>, EmptyDict, << >>, 0, 0)
    /\ max_steps = MaxStepsBound
    /\ trajectory = << >>
    /\ available = << >>
    /\ response_str = NotJson
    /\ action = Action(FINISH, Mapping(EmptyDict), PyNone)
    /\ obs = NoObservation
    /\ result = EmptyDict
    /\ action_history = << >>
    /\ llm_calls = 0
    /\ skill_calls = 0
    /\ summarizer = SummarizerAgent(FALSE)
    /\ skill_trace = NoTrace
    /\ collector = Collectors
    /\ pc = "loop"

MainSelect == SelectActionOf(MainResponses(state))

MainRewrite ==
    /\ action.type = REWRITE
    /\ Execute({ Returns(RewriteObservation(action.parameters, state, Rewrite(a))) :
                   a \in MainRewriterAnswers })
    /\ UNCHANGED << summarizer, skill_trace, collector >>

MainChase ==
    /\ action.type = CHASE
    /\ Execute({ Returns(ChaseObservation(CheckAndChase(a))) : a \in MainChaserAnswers })
    /\ UNCHANGED << summarizer, skill_trace, collector >>

MainPlan ==
    /\ action.type = PLAN
    /\ Execute({ Returns(PlanObservation(p)) : p \in MainPlans })
    /\ UNCHANGED << summarizer, skill_trace, collector >>

MainSearch ==
    /\ action.type \in { SEARCH_DB, SEARCH_WEB }
    /\ Execute({ Returns(SearchObservation(vd)) :
                   vd \in CollectorResults(state.context["plan"]) })
    /\ UNCHANGED << summarizer, skill_trace, collector >>

\* mutant of the clarification branch: the next run resumes the state of the last
MainContinue_Resume ==
    /\ pc = "done"
    /\ DictGet(result, "status", PyNone) = "need_input"
    /\ Len(state.query) <= MaxRounds
    /\ \E supplement \in MainAnswers :
         state' = [ state EXCEPT !.query = Concat(state.query, supplement) ]
    /\ trajectory' = << >>
    /\ pc' = "loop"
    /\ UNCHANGED << max_steps, available, response_str, action, obs, result,
                    action_history, llm_calls, skill_calls, summarizer, skill_trace, collector >>

\* main lines 55-75 and process lines 465-470: on need_input the user's answer is
\* appended to current_query and process() starts on it with a new RunState
MainContinue ==
    /\ pc = "done"
    /\ DictGet(result, "status", PyNone) = "need_input"
    /\ Len(state.query) <= MaxRounds
    /\ \E supplement \in MainAnswers :
         state' = AgentState(Concat(state.query, supplement), EmptyDict, << >>, 0, 0)
    /\ trajectory' = << >>
    /\ pc' = "loop"
    /\ UNCHANGED << max_steps, available, response_str, action, obs, result,
                    action_history, llm_calls, skill_calls, summarizer, skill_trace, collector >>

\* main lines 67-69: the user answers q
MainQuit ==
    /\ pc = "done"
    /\ DictGet(result, "status", PyNone) = "need_input"
    /\ pc' = "exit"
    /\ UNCHANGED << state, max_steps, trajectory, available, response_str, action, obs, result,
                    action_history, llm_calls, skill_calls, summarizer, skill_trace, collector >>

\* main lines 78-96: any other status ends the loop
MainFinish ==
    /\ pc = "done"
    /\ DictGet(result, "status", PyNone) # "need_input"
    /\ pc' = "exit"
    /\ UNCHANGED << state, max_steps, trajectory, available, response_str, action, obs, result,
                    action_history, llm_calls, skill_calls, summarizer, skill_trace, collector >>

NextMain ==
    \/ BudgetExit
    \/ MainSelect
    \/ MainRewrite
    \/ MainChase
    \/ MainPlan
    \/ MainSearch
    \/ ExecuteSummarize
    \/ Merge
    \/ MainContinue
    \/ MainQuit
    \/ MainFinish

SpecMain == InitMain /\ [][NextMain]_vars

(***************************************************************************)
(* Two process() calls of one orchestrator, interleaved at their awaits.   *)
(* state, trajectory, available, action, obs and result are locals of      *)
(* process(), so each holds one value per run; max_steps, the skills and   *)
(* their collectors belong to the orchestrator.  The model names the first *)
(* or the last legal action; the search is split at the await of           *)
(* _ensure_rag_loaded.  The policy's log is not kept here, llm_calls       *)
(* counts its entries.                                                     *)
(***************************************************************************)
Runs == { 1, 2 }

TwoQuery(r) == IF r = 1 THEN "Q1" ELSE "Q2"

\* gather(agent.process("Q1"), agent.process("Q2")): each call builds its state
\* and its trajectory (lines 465-470)
InitTwo ==
    /\ state = [ r \in Runs |-> AgentState(TwoQuery(r), EmptyDict, << >>, 0, 0) ]
    /\ max_steps = MaxStepsBound
    /\ trajectory = [ r \in Runs |-> << >> ]
    /\ available = [ r \in Runs |-> << >> ]
    /\ response_str = [ r \in Runs |-> NotJson ]
    /\ action = [ r \in Runs |-> Action(FINISH, Mapping(EmptyDict), PyNone) ]
    /\ obs = [ r \in Runs |-> NoObservation ]
    /\ result = [ r \in Runs |-> EmptyDict ]
    /\ action_history = << >>
    /\ llm_calls = 0
    /\ skill_calls = 0
    /\ summarizer = SummarizerAgent(FALSE)
    /\ skill_trace = NoTrace
    /\ collector = Collectors
    /\ pc = [ r \in Runs |-> "loop" ]

\* the loop condition of run r fails (line 474, then 503-517)
TwoBudgetExit(r) ==
    /\ pc[r] = "loop"
    /\ ~(state[r].step_count < max_steps)
    /\ result' = [ result EXCEPT ![r] = MakeResult(state[r], trajectory[r]) ]
    /\ pc' = [ pc EXCEPT ![r] = "done" ]
    /\ UNCHANGED << state, max_steps, trajectory, available, response_str, action, obs,
                    action_history, llm_calls, skill_calls, summarizer, skill_trace, collector >>

\* lines 477-482 of run r
TwoSelect(r) ==
    /\ pc[r] = "loop"
    /\ state[r].step_count < max_steps
    /\ \E response \in MainResponses(state[r]) :
         LET avail == GetAvailableActions(state[r])
             act == ParseResponse(response, avail)
         IN  /\ available' = [ available EXCEPT ![r] = avail ]
             /\ response_str' = [ response_str EXCEPT ![r] = response ]
             /\ llm_calls' = llm_calls + 1
             /\ action' = [ action EXCEPT ![r] = act ]
             /\ IF IsFinish(act)
                THEN /\ result' = [ result EXCEPT ![r] = MakeResult(state[r], trajectory[r]) ]
                     /\ pc' = [ pc EXCEPT ![r] = "done" ]
                ELSE /\ result' = result
                     /\ pc' = [ pc EXCEPT ![r] = "exec" ]
    /\ UNCHANGED << state, max_steps, trajectory, obs, action_history, skill_calls,
                    summarizer, skill_trace, collector >>

\* line 487 of run r: the skill returns one of the given Outcomes
TwoExecute(r, from, observations) ==
    /\ pc[r] = from
    /\ skill_calls' = skill_calls + 1
    /\ \E o \in observations : obs' = [ obs EXCEPT ![r] = o ]
    /\ pc' = [ pc EXCEPT ![r] = "merge" ]
    /\ UNCHANGED << state, max_steps, trajectory, available, response_str, action,
                    result, action_history, llm_calls, summarizer, skill_trace, collector >>

\* RewriteSkill, ChaseSkill, PlanningSkill and SummarizeSkill in run r: the
\* rewriter and the planner answer, the integrity check answers sufficient or
\* asks a question, the summary check answers sufficient or insufficient
TwoSkill(r) ==
    /\ action[r].type \in { REWRITE, CHASE, PLAN, SUMMARIZE }
    /\ TwoExecute(r, "exec",
         CASE action[r].type = REWRITE ->
                { RewriteObservation(action[r].parameters, state[r], Rewrite(a)) :
                    a \in MainRewriterAnswers }
           [] action[r].type = CHASE ->
                { ChaseObservation(CheckAndChase(a)) : a \in MainChaserAnswers }
           [] action[r].type = PLAN ->
                { PlanObservation(p) : p \in MainPlans }
           [] OTHER ->
                { SummarizeObservation(SummarizerExecute(summarizer, c, [ executive_summary |-> "R1" ])) :
                    c \in { [ sufficiency_verdict |-> "sufficient", sufficiency_score |-> "0.9" ],
                            [ sufficiency_verdict |-> "insufficient", sufficiency_score |-> "0.2",
                              missing_critical_items |-> "[m1]" ] } })

\* SearchSkill.execute up to the test of _ensure_rag_loaded (collector.py line 39):
\* a ready collector goes on to collect, any other starts MoutaiRAGEngine() in
\* the executor and awaits it
EnsureRagLoaded(r) ==
    /\ pc[r] = "exec"
    /\ action[r].type \in { SEARCH_DB, SEARCH_WEB }
    /\ pc' = [ pc EXCEPT ![r] = IF collector[action[r].type].rag_ready
                                 THEN "collect" ELSE "build" ]
    /\ UNCHANGED << state, max_steps, trajectory, available, response_str, action, obs, result,
                    action_history, llm_calls, skill_calls, summarizer, skill_trace, collector >>

\* the await of line 45 returns: MoutaiRAGEngine() gave an engine that is ready,
\* an engine whose is_ready is False, or raised.  The engine is stored, and
\* rag_ready set when the engine is ready (lines 45-52); an exception leaves
\* both (lines 54-56)
RagBuilt(r) ==
    /\ pc[r] = "build"
    /\ \E outcome \in { "ready", "not_ready", "raised" } :
         LET t == action[r].type
             c == collector[t]
             n == c.constructed + 1
         IN  collector' =
               [ collector EXCEPT ![t] =
                   IF outcome = "raised" THEN c
                   ELSE [ rag_engine |-> Some(n),
                          rag_ready |-> c.rag_ready \/ outcome = "ready",
                          constructed |-> n ] ]
    /\ pc' = [ pc EXCEPT ![r] = "collect" ]
    /\ UNCHANGED << state, max_steps, trajectory, available, response_str, action, obs, result,
                    action_history, llm_calls, skill_calls, summarizer, skill_trace >>

\* the loop of InformationCollectionAgent.execute and the Outcome of the search:
\* local retrieval only with rag_ready set
TwoCollect(r) ==
    /\ action[r].type \in { SEARCH_DB, SEARCH_WEB }
    /\ TwoExecute(r, "collect",
         { SearchObservation(vd) :
             vd \in { v \in CollectorResults(state[r].context["plan"]) :
                        \A d \in DOMAIN v :
                            v[d] = RagEntry => collector[action[r].type].rag_ready } })

\* mutant of the merge: the state is kept on the orchestrator, one for all runs
TwoMerge_Shared(r) ==
    /\ pc[r] = "merge"
    /\ LET st == UpdateState(state[r], action[r], obs[r])
           traj == Append(trajectory[r],
                     [ state |-> StateCopy(st), action |-> action[r], obs |-> obs[r] ])
       IN  /\ state' = [ q \in Runs |-> st ]
           /\ trajectory' = [ trajectory EXCEPT ![r] = traj ]
           /\ IF IsComplete(obs[r])
              THEN /\ result' = [ result EXCEPT ![r] = MakeResult(st, traj) ]
                   /\ pc' = [ pc EXCEPT ![r] = "done" ]
              ELSE /\ result' = result
                   /\ pc' = [ pc EXCEPT ![r] = "loop" ]
    /\ UNCHANGED << max_steps, available, response_str, action, obs,
                    action_history, llm_calls, skill_calls, summarizer, skill_trace, collector >>

\* lines 492-498 of run r: _update_state on its state, the record appended to
\* its trajectory, the is_complete exit
TwoMerge(r) ==
    /\ pc[r] = "merge"
    /\ LET st == UpdateState(state[r], action[r], obs[r])
           traj == Append(trajectory[r],
                     [ state |-> StateCopy(st), action |-> action[r], obs |-> obs[r] ])
       IN  /\ state' = [ state EXCEPT ![r] = st ]
           /\ trajectory' = [ trajectory EXCEPT ![r] = traj ]
           /\ IF IsComplete(obs[r])
              THEN /\ result' = [ result EXCEPT ![r] = MakeResult(st, traj) ]
                   /\ pc' = [ pc EXCEPT ![r] = "done" ]
              ELSE /\ result' = result
                   /\ pc' = [ pc EXCEPT ![r] = "loop" ]
    /\ UNCHANGED << max_steps, available, response_str, action, obs,
                    action_history, llm_calls, skill_calls, summarizer, skill_trace, collector >>

NextTwo ==
    \/ \E r \in Runs : TwoBudgetExit(r)
    \/ \E r \in Runs : TwoSelect(r)
    \/ \E r \in Runs : TwoSkill(r)
    \/ \E r \in Runs : EnsureRagLoaded(r)
    \/ \E r \in Runs : RagBuilt(r)
    \/ \E r \in Runs : TwoCollect(r)
    \/ \E r \in Runs : TwoMerge(r)

SpecTwo == InitTwo /\ [][NextTwo]_vars

(***************************************************************************)
(* Harness for the execute of each skill as a function of its parameters,  *)
(* of the RunState and of what its collaborators answer: the run starts    *)
(* with a context of some stage of the workflow and with any Action; the   *)
(* skill of the Action runs once, its Outcome is folded into the state and *)
(* the gate is evaluated on the state after.                               *)
(***************************************************************************)
SkillPlans ==
    { [ error |-> "json_parse_fail" ], [ required_info |-> << >> ] }
    \cup { [ required_info |-> << PlanItem(1, src) >> ] : src \in Sources \cup { "rag_then_web" } }
    \cup { [ required_info |-> << [ desc |-> 1 ] >> ],
           [ required_info |-> << MalformedItem >> ],
           [ required_info |-> [ i \in 1 .. MaxItems + 1 |->
                                  PlanItem(i, IF i % 2 = 1 THEN "rag" ELSE "web_only") ] ] }

SkillContexts ==
    LET rewritten(i) == [ rewritten_query |-> RewrittenQuery, entities |-> EntitiesFound,
                          intent |-> i, collected_data |-> EmptyDict ]
        checked == DictUpdate(rewritten(IntentNamed), [ integrity_ok |-> PyTrue ])
    IN  { EmptyDict, rewritten(IntentNamed), rewritten(IntentNonMapping), checked }
        \cup { DictUpdate(checked, [ plan |-> p ]) : p \in SkillPlans }
        \cup { DictUpdate(checked, [ plan |-> [ required_info |-> << PlanItem(1, "rag") >> ],
                                     collected_data |-> [ i \in { 1 } |-> WebEntry ] ]) }

SkillParams ==
    { Mapping(EmptyDict), Mapping([ query |-> "Q2" ]), Mapping([ force_web |-> PyTrue ]), NonMapping }

InitSkill ==
    /\ state \in { AgentState(UserQuery, c, << >>, 0, 0) : c \in SkillContexts }
    /\ max_steps = 1
    /\ trajectory = << >>
    /\ available = << >>
    /\ response_str = NotJson
    /\ action \in { Action(t, p, ReasonModel) : t \in ActionType \ { FINISH }, p \in SkillParams }
    /\ obs = NoObservation
    /\ result = EmptyDict
    /\ action_history = << >>
    /\ llm_calls = 0
    /\ skill_calls = 0
    /\ summarizer = SummarizerAgent(FALSE)
    /\ skill_trace = NoTrace
    /\ collector = Collectors
    /\ pc = "call"

\* mutant of the call: a search with force_web rewrites context.plan in place
SkillCall_InPlace(runs) ==
    /\ pc = "call"
    /\ skill_calls' = skill_calls + 1
    /\ \E r \in runs :
         /\ skill_trace' = r.trace
         /\ IF r.ret.raised
            THEN pc' = "raised" /\ obs' = obs
            ELSE pc' = "absorb" /\ obs' = r.ret.obs
         /\ state' = IF r.trace.plan # EmptyDict
                     THEN [ state EXCEPT !.context = DictUpdate(@, [ plan |-> r.trace.plan ]) ]
                     ELSE state
    /\ UNCHANGED << max_steps, trajectory, available, response_str, action,
                    result, action_history, llm_calls, summarizer, collector >>

\* obs = await skill.execute(action.parameters, state), one of the runs of the skill
SkillCall(runs) ==
    /\ pc = "call"
    /\ skill_calls' = skill_calls + 1
    /\ \E r \in runs :
         /\ skill_trace' = r.trace
         /\ IF r.ret.raised
            THEN pc' = "raised" /\ obs' = obs
            ELSE pc' = "absorb" /\ obs' = r.ret.obs
    /\ UNCHANGED << state, max_steps, trajectory, available, response_str, action,
                    result, action_history, llm_calls, summarizer, collector >>

SkillRewrite ==
    /\ action.type = REWRITE
    /\ SkillCall(RewriteSkillRuns(action.parameters, state,
                                  RewriterAnswers \cup PartialRewriterAnswers))

SkillChase ==
    /\ action.type = CHASE
    /\ SkillCall(ChaseSkillRuns(action.parameters, state, ChaserAnswers))

SkillPlan ==
    /\ action.type = PLAN
    /\ SkillCall(PlanningSkillRuns(action.parameters, state, SkillPlans))

SkillSearch ==
    /\ action.type \in { SEARCH_DB, SEARCH_WEB }
    /\ SkillCall(SearchSkillRuns(action.parameters, state))

SkillSummarize ==
    /\ action.type = SUMMARIZE
    /\ pc = "call"
    /\ skill_calls' = skill_calls + 1
    /\ \E a \in SummarizerResults(summarizer) :
         /\ summarizer' = a
         /\ obs' = SummarizeObservation(a)
    /\ pc' = "absorb"
    /\ UNCHANGED << state, max_steps, trajectory, available, response_str, action,
                    result, action_history, llm_calls, skill_trace, collector >>

\* self._update_state(state, action, obs)
SkillMerge ==
    /\ pc = "absorb"
    /\ state' = UpdateState(state, action, obs)
    /\ pc' = "next"
    /\ UNCHANGED << max_steps, trajectory, available, response_str, action, obs, result,
                    action_history, llm_calls, skill_calls, summarizer, skill_trace, collector >>

\* available = self._get_available_actions(state), on the state after the merge
SkillGate ==
    /\ pc = "next"
    /\ available' = GetAvailableActions(state)
    /\ pc' = "end"
    /\ UNCHANGED << state, max_steps, trajectory, response_str, action, obs, result,
                    action_history, llm_calls, skill_calls, summarizer, skill_trace, collector >>

NextSkill ==
    \/ SkillRewrite
    \/ SkillChase
    \/ SkillPlan
    \/ SkillSearch
    \/ SkillSummarize
    \/ SkillMerge
    \/ SkillGate

SpecSkill == InitSkill /\ [][NextSkill]_vars

(***************************************************************************)
(* Properties of the legality gate and of the state merge.                 *)
(***************************************************************************)
HasCollected(o) ==
    o.success /\ Truthy(o.data) /\ "collected_data" \in DOMAIN o.data[1]

Collected(o) == o.data[1]["collected_data"]

C1_Legal(keys) ==
    IF "rewritten_query" \notin keys THEN { REWRITE }
    ELSE IF "integrity_ok" \notin keys /\ "suggested_question" \notin keys THEN { CHASE }
    ELSE IF "suggested_question" \in keys THEN { FINISH }
    ELSE IF "plan" \notin keys THEN { PLAN }
    ELSE IF "collected_data" \in keys THEN { SEARCH_DB, SEARCH_WEB, SUMMARIZE }
    ELSE { SEARCH_DB, SEARCH_WEB }

\* C1: for every context the gate returns exactly the actions of the table of
\* section 4.2 (REWRITE / CHASE / FINISH / PLAN / the two searches, with
\* SUMMARIZE iff collected_data is present), each of them once.
C1_GateTable ==
    pc = "fold" =>
        /\ Range(available) = C1_Legal(DOMAIN state.context)
        /\ Len(available) = Cardinality(Range(available))

C1_Witness ==
    /\ pc = "fold"
    /\ available = << SEARCH_DB, SEARCH_WEB, SUMMARIZE >>
    /\ DictGet(state.context, "integrity_ok", PyNone) = PyFalse
    /\ state.step_count > 0

\* a RunState with the key set of the current context and other values, another
\* query, another history and another step count
C2_Variants ==
    { AgentState(q, c, h, Len(h), 0) :
        q \in { UserQuery, "Q2" },
        c \in FuzzDicts(DOMAIN state.context),
        h \in { << >>, << [ step |-> 1, action |-> REWRITE, success |-> FALSE ] >> } }

\* C2: the gate depends on the key set of context alone (every RunState whose
\* context has the same keys gets the same legal actions), and evaluating the
\* gate leaves the RunState as it was.
C2_GateKeySetOnly ==
    /\ [](pc = "fold" => \A s2 \in C2_Variants : GetAvailableActions(s2) = available)
    /\ [][pc = "gate" => state' = state]_vars

C2_Witness ==
    /\ pc = "fold"
    /\ available = << PLAN >>
    /\ DictGet(state.context, "integrity_ok", PyNone) = PyFalse
    /\ \E s2 \in C2_Variants : s2.context["integrity_ok"] = PyTrue

\* C3: folding an Outcome (successful or failed, any payload) never removes a
\* key of context.
C3_KeysNeverShrink ==
    [][DOMAIN state.context \subseteq DOMAIN state'.context]_vars

C3_Witness ==
    /\ pc = "gate"
    /\ state.step_count = 2
    /\ state.history[1].success
    /\ obs.success /\ Truthy(obs.data)
    /\ "report" \in DOMAIN state.context
    /\ "report" \notin DOMAIN obs.data[1]
    /\ "plan" \in DOMAIN obs.data[1]

C4_Union(p1, p2) ==
    [ k \in (DOMAIN p1) \cup (DOMAIN p2) |-> IF k \in DOMAIN p1 THEN p1[k] ELSE p2[k] ]

\* C4: when context.collected_data is exactly the payload p1 of the Outcome
\* merged last and a successful Outcome with a payload p2 on other item keys is
\* merged, collected_data becomes the union of p1 and p2 (the runs of the
\* harness take both orders); merging the Outcome merged last a second time
\* leaves collected_data as it is.
C4_MergeUnion ==
    [][pc = "fold" /\ HasCollected(obs) /\ HasCollected(obs') =>
         /\ ( /\ state.context["collected_data"] = Collected(obs)
              /\ (DOMAIN Collected(obs)) \cap (DOMAIN Collected(obs')) = {} )
            => state'.context["collected_data"] = C4_Union(Collected(obs'), Collected(obs))
         /\ obs' = obs
            => state'.context["collected_data"] = state.context["collected_data"]
      ]_vars

C4_Witness ==
    /\ pc = "gate"
    /\ state.step_count = 2
    /\ state.history[1].success
    /\ HasCollected(obs)
    /\ DOMAIN Collected(obs) = { "net profit 2023" }
    /\ DOMAIN state.context["collected_data"] = FuzzItems
    /\ state.context["collected_data"]["revenue 2023"] = RagEntry

\* the merge rule of section 4.3.1: the collected_data field is merged key by
\* key into context.collected_data, every other field is written to its key
C5_Rule(ctx, data) ==
    LET others == [ k \in (DOMAIN data) \ { "collected_data" } |-> data[k] ]
        base == DictUpdate(ctx, others)
    IN  IF "collected_data" \in DOMAIN data
        THEN DictUpdate(base,
                 [ collected_data |->
                     DictUpdate(DictGet(ctx, "collected_data", EmptyDict), data["collected_data"]) ])
        ELSE base

\* C5: the merge of a successful, non-empty Outcome follows the rule of section
\* 4.3.1 exactly: collected_data is created only by a payload that has that
\* field, every other payload field is written, nothing else changes.
C5_MergeRule ==
    [][pc = "merge" /\ obs.success /\ Truthy(obs.data)
         => state'.context = C5_Rule(state.context, obs.data[1])]_vars

(***************************************************************************)
(* Properties of the loop.                                                 *)
(***************************************************************************)
C6_Faulty(response, legal) ==
    \/ ~response.json
    \/ ~response.object
    \/ response.action \notin ActionType
    \/ response.action \notin Range(legal)

\* C6: every iteration calls the decision model exactly once; when its answer is
\* no JSON object, names no known action or names an action that is not legal,
\* the Action is FINISH with a rationale that notes the fault, and the loop ends
\* without asking again.
C6_FaultIsFinish ==
    /\ [][pc = "loop" /\ state.step_count < max_steps =>
            /\ llm_calls' = llm_calls + 1
            /\ C6_Faulty(response_str', available') =>
                 /\ action'.type = FINISH
                 /\ action'.reason \in { ReasonParseFailed, ReasonIllegalAction }
                 /\ pc' = "done"
         ]_vars
    /\ [][llm_calls' # llm_calls => pc = "loop" /\ state.step_count < max_steps]_vars
    /\ [][pc = "done" => llm_calls' = llm_calls]_vars

C6_Witness ==
    /\ pc = "done"
    /\ state.step_count = 3
    /\ available = << SEARCH_DB, SEARCH_WEB, SUMMARIZE >>
    /\ response_str.action = PLAN
    /\ action = Action(FINISH, Mapping(EmptyDict), ReasonIllegalAction)
    /\ llm_calls = 4

\* C7: an iteration whose Action is FINISH ends the loop at once: no skill runs,
\* and context, history, stepCount and the trajectory stay as they were.
C7_FinishExits ==
    [][pc = "loop" /\ state.step_count < max_steps /\ action'.type = FINISH =>
         /\ pc' = "done"
         /\ state' = state
         /\ trajectory' = trajectory
         /\ skill_calls' = skill_calls
      ]_vars

C7_Witness ==
    /\ pc = "done"
    /\ action.type = FINISH
    /\ action.reason = ReasonIllegalAction
    /\ response_str.action = SUMMARIZE
    /\ Len(state.history) = 1
    /\ Len(trajectory) = 1
    /\ state.step_count < max_steps

\* C8: when process() returns with suggested_question in context, the result has
\* status need_input, the question and the options of the context, and there is
\* no report: context has no report key and final_report is the default.
C8_NeedInput ==
    pc = "done" /\ "suggested_question" \in DOMAIN state.context =>
        /\ result["status"] = "need_input"
        /\ result["clarification_question"] = state.context["suggested_question"]
        /\ result["clarification_options"] = state.context["suggested_options"]
        /\ "report" \notin DOMAIN state.context
        /\ result["final_report"] = NotGenerated

C8_Witness ==
    /\ pc = "done"
    /\ state.query = "Q1"
    /\ Len(state.history) = 2
    /\ [ i \in 1 .. 2 |-> state.history[i].action ] = << REWRITE, CHASE >>
    /\ DictGet(state.context, "rewritten_query", PyNone) = "Q1'"
    /\ DictGet(state.context, "integrity_ok", PyNone) = PyFalse
    /\ result["status"] = "need_input"
    /\ result["clarification_question"] = "which year?"
    /\ result["clarification_options"] = "[]"

\* C9: once suggested_question is in context no skill runs any more: the next
\* step of the run returns, and whatever the policy answers there the Action is
\* FINISH.
C9_QuestionStops ==
    []["suggested_question" \in DOMAIN state.context =>
         /\ pc = "loop"
         /\ pc' = "done"
         /\ skill_calls' = skill_calls
         /\ state' = state
         /\ llm_calls' # llm_calls => action'.type = FINISH
      ]_vars

C9_Witness ==
    /\ pc = "done"
    /\ "suggested_question" \in DOMAIN state.context
    /\ response_str.action = PLAN
    /\ action.type = FINISH
    /\ skill_calls = 2

\* C10: stepCount counts the skill invocations (one more is under way while its
\* Outcome waits to be merged), it never exceeds maxSteps, each merge adds one,
\* and once stepCount >= maxSteps neither the policy nor a skill is called.
C10_Budget ==
    /\ [](/\ state.step_count <= max_steps
          /\ pc \in { "loop", "exec", "done" } => skill_calls = state.step_count
          /\ pc = "merge" => skill_calls = state.step_count + 1)
    /\ [][state'.step_count # state.step_count =>
            pc = "merge" /\ state'.step_count = state.step_count + 1]_vars
    /\ [][skill_calls' # skill_calls => pc = "exec" /\ skill_calls' = skill_calls + 1]_vars
    /\ [][state.step_count >= max_steps =>
            llm_calls' = llm_calls /\ skill_calls' = skill_calls]_vars

C10_Witness ==
    /\ pc = "done"
    /\ max_steps = 2
    /\ state.step_count = 2
    /\ [ i \in 1 .. 2 |-> state.history[i].action ] = << REWRITE, CHASE >>
    /\ DictGet(state.context, "integrity_ok", PyNone) = PyFalse
    /\ action.type = CHASE
    /\ llm_calls = 2
    /\ \A i \in DOMAIN action_history : action_history[i].action_label # FINISH
    /\ "report" \notin DOMAIN state.context
    /\ result["final_report"] = NotGenerated

(***************************************************************************)
(* Termination, the result and the bookkeeping of the run.                 *)
(***************************************************************************)
\* C11: whatever the policy answers and whatever the skills' collaborators
\* return, process() does not stop before it has returned a result (every state
\* in which the run cannot go on is a returned result with a status), and it
\* makes at most maxSteps skill invocations.
C11_ReturnsResult ==
    /\ skill_calls <= max_steps
    /\ \/ ENABLED Next
       \/ pc = "done" /\ "status" \in DOMAIN result

\* C12: when the loop ends because stepCount reached maxSteps, with no question
\* pending and no report in context, the status of the result is neither the
\* success status nor the need_input status.
C12_BudgetStatus ==
    ( /\ pc = "done"
      /\ state.step_count >= max_steps
      /\ "suggested_question" \notin DOMAIN state.context
      /\ "report" \notin DOMAIN state.context )
    => result["status"] \notin { "success", "need_input" }

RECURSIVE C13_CostSum(_)
C13_CostSum(traj) ==
    IF traj = << >> THEN 0 ELSE traj[1].obs.cost + C13_CostSum(Tail(traj))

\* C13: accumulatedReward is the sum of the costs of the Outcomes merged so far
\* (in hundredths), and the result's total_reward reports that sum.
C13_RewardIsCostSum ==
    /\ state.accumulated_reward = C13_CostSum(trajectory)
    /\ pc = "done" => result["total_reward"] = C13_CostSum(trajectory)

\* C14: history is an append-only, complete log: it has one record per executed
\* step (stepCount of them), record i has step i and the action type and the
\* success flag of the i-th executed Action and Outcome, failed ones included;
\* a step either leaves history as it is or appends the record of the Outcome
\* being merged.
C14_HistoryLog ==
    /\ [](/\ Len(state.history) = state.step_count
          /\ Len(trajectory) = state.step_count
          /\ \A i \in DOMAIN state.history :
               /\ state.history[i].step = i
               /\ state.history[i].action = trajectory[i].action.type
               /\ state.history[i].success = trajectory[i].obs.success)
    /\ [][\/ state'.history = state.history
          \/ /\ pc = "merge"
             /\ state'.history =
                  Append(state.history, [ step |-> state.step_count + 1,
                                          action |-> action.type, success |-> obs.success ])
         ]_vars

C14_Witness ==
    /\ pc = "loop"
    /\ Len(state.history) = 3
    /\ [ i \in 1 .. 3 |-> state.history[i].action ] = << REWRITE, REWRITE, CHASE >>
    /\ [ i \in 1 .. 3 |-> state.history[i].success ] = << FALSE, TRUE, FALSE >>
    /\ state.step_count = 3

\* C15: merging a failed Outcome, with or without a payload, changes stepCount
\* (one more) and history (one record more) and nothing else of the RunState:
\* context, query and accumulatedReward stay as they are.
C15_FailedLeavesContext ==
    [][pc = "merge" /\ ~obs.success =>
         /\ state'.context = state.context
         /\ state'.step_count = state.step_count + 1
         /\ state'.history =
              Append(state.history, [ step |-> state.step_count + 1,
                                      action |-> action.type, success |-> FALSE ])
         /\ state'.query = state.query
         /\ state'.accumulated_reward = state.accumulated_reward
      ]_vars

C15_Witness ==
    /\ pc = "loop"
    /\ action.type = SUMMARIZE
    /\ ~obs.success
    /\ Truthy(obs.data)
    /\ "missing" \in DOMAIN obs.data[1]
    /\ "missing" \notin DOMAIN state.context
    /\ Len(state.history) = state.step_count
    /\ state.step_count > 0
    /\ ~state.history[state.step_count].success

\* a successful Outcome whose payload has is_complete true
C16_Complete(o) ==
    o.success /\ Truthy(o.data) /\ DictGet(o.data[1], "is_complete", PyNone) = PyTrue

\* C16: a failed Outcome does not end the run (after its merge the loop goes
\* on); whenever the loop goes on with stepCount < maxSteps the legal set is
\* computed again and the policy is asked again; and the loop is left only by a
\* FINISH Action, by a successful Outcome with is_complete true, or with
\* stepCount >= maxSteps.
C16_FailedStepContinues ==
    /\ [][pc = "merge" /\ ~obs.success => pc' = "loop"]_vars
    /\ [][pc = "loop" /\ state.step_count < max_steps =>
            /\ available' = GetAvailableActions(state)
            /\ llm_calls' = llm_calls + 1]_vars
    /\ [][(pc \in { "loop", "exec", "merge" }) /\ pc' \notin { "loop", "exec", "merge" } =>
            \/ pc = "loop" /\ state.step_count < max_steps /\ action'.type = FINISH
            \/ pc = "merge" /\ C16_Complete(obs)
            \/ pc = "loop" /\ state.step_count >= max_steps
         ]_vars

\* C17: once a successful Outcome with is_complete true is merged the run is
\* over: that step returns the result, with status success and the report of
\* the Outcome as final_report, and neither the policy nor a skill is called
\* in it or after it.
C17_CompleteExits ==
    /\ [][pc = "merge" /\ C16_Complete(obs) =>
            /\ pc' = "done"
            /\ result'["status"] = "success"
            /\ result'["final_report"] = obs.data[1]["report"]
            /\ llm_calls' = llm_calls
            /\ skill_calls' = skill_calls
         ]_vars
    /\ [][pc = "done" =>
            pc' = "done" /\ llm_calls' = llm_calls /\ skill_calls' = skill_calls]_vars

C17_Witness ==
    /\ pc = "done"
    /\ action.type = SUMMARIZE
    /\ C16_Complete(obs)
    /\ obs.data[1]["report"] = "R1"
    /\ result["status"] = "success"
    /\ result["final_report"] = "R1"
    /\ state.step_count < max_steps
    /\ llm_calls = state.step_count

\* the run of the happy path: the five steps REWRITE, CHASE, PLAN, SEARCH_DB and
\* SUMMARIZE were executed in this order and each succeeded, CHASE with
\* integrity_ok true, PLAN with one required item, SEARCH_DB collecting it from
\* the RAG, SUMMARIZE in loose mode on the verdict partial
C18_Happy ==
    /\ Len(trajectory) = 5
    /\ [ i \in 1 .. 5 |-> trajectory[i].action.type ]
         = << REWRITE, CHASE, PLAN, SEARCH_DB, SUMMARIZE >>
    /\ \A i \in 1 .. 5 : trajectory[i].obs.success
    /\ trajectory[2].obs.data[1]["integrity_ok"] = PyTrue
    /\ Len(trajectory[3].obs.data[1]["plan"].required_info) = 1
    /\ LET cd == trajectory[4].obs.data[1]["collected_data"] IN
         \A d \in DOMAIN cd : cd[d].source = "RAG"
    /\ ~summarizer.strict_mode
    /\ summarizer.check_res.verdict = "partial"

\* C18: on the happy path the loop ends right after the fifth step, SUMMARIZE:
\* stepCount is 5, five skills ran, the policy was asked five times (not again
\* after SUMMARIZE, which was legal when chosen), and the result has status
\* success.
C18_HappyPath ==
    C18_Happy =>
        /\ pc = "done"
        /\ state.step_count = 5
        /\ skill_calls = 5
        /\ llm_calls = 5
        /\ SUMMARIZE \in Range(available)
        /\ result["status"] = "success"

C18_Witness ==
    /\ C18_Happy
    /\ pc = "done"
    /\ state.step_count = 5
    /\ result["status"] = "success"
    /\ result["final_report"] = "R1"

(***************************************************************************)
(* Properties of the Summarize skill.                                      *)
(***************************************************************************)
\* C19: in loose mode on the verdict partial the successful Outcome of
\* SummarizeSkill has, next to report and is_complete true, the caveat string
\* of the SummarizerResult (the check's caveats, or the default disclaimer).
C19_CaveatInOutcome ==
    ( /\ pc \in { "merge", "done" }
      /\ action.type = SUMMARIZE
      /\ obs.success
      /\ ~summarizer.strict_mode
      /\ summarizer.check_res.verdict = "partial" )
    => /\ DictGet(obs.data[1], "is_complete", PyNone) = PyTrue
       /\ "report" \in DOMAIN obs.data[1]
       /\ summarizer.result.caveats \in { DefaultCaveats, "c1" }
       /\ \E k \in DOMAIN obs.data[1] : obs.data[1][k] = summarizer.result.caveats

\* the verdict of a check answer: the answer's sufficiency_verdict, and
\* insufficient for an answer without one (a failed check, an error object)
C20_Verdict(answer) ==
    IF "sufficiency_verdict" \in DOMAIN answer THEN answer["sufficiency_verdict"]
    ELSE "insufficient"

C21_Verdict(answer) == "is_sufficient" \in DOMAIN answer

\* C21: whenever the integrity check answers with a verdict the Chase Outcome is
\* successful: on sufficient the payload is {integrity_ok: true}; on insufficient
\* it is {integrity_ok: false, suggested_question, suggested_options,
\* is_wait_user: true}; and after the merge suggested_question is in context
\* exactly in the insufficient branch.
C21_ChaseBranches ==
    ( /\ pc \in { "absorb", "next", "end" }
      /\ action.type = CHASE
      /\ C21_Verdict(skill_trace.answer) )
    => LET sufficient == skill_trace.answer["is_sufficient"] = PyTrue
           data == obs.data[1]
       IN  /\ obs.success
           /\ sufficient => data = [ integrity_ok |-> PyTrue ]
           /\ ~sufficient =>
                /\ DOMAIN data = { "integrity_ok", "suggested_question", "suggested_options",
                                   "is_wait_user" }
                /\ data["integrity_ok"] = PyFalse
                /\ data["is_wait_user"] = PyTrue
                /\ data["suggested_question"] =
                     DictGet(skill_trace.answer, "suggested_question", PyNone)
                /\ data["suggested_options"] =
                     DictGet(skill_trace.answer, "suggested_options", "[]")
           /\ pc \in { "next", "end" } =>
                /\ "integrity_ok" \in DOMAIN state.context
                /\ "suggested_question" \in DOMAIN state.context <=> ~sufficient

C21_Witness ==
    /\ pc = "end"
    /\ action.type = CHASE
    /\ "rewritten_query" \in DOMAIN state.context
    /\ DictGet(skill_trace.answer, "is_sufficient", PyNone) = PyFalse
    /\ obs.success
    /\ DictGet(state.context, "suggested_question", PyNone) = "which year?"
    /\ DictGet(state.context, "suggested_options", PyNone) = "[2023, 2024]"
    /\ available = << FINISH >>


\* the integrity-check call failed: the executor threw, or answered {error: ...}
C22_CallFailed(answer) == "thrown" \in DOMAIN answer \/ "error" \in DOMAIN answer

\* C22: when the integrity-check call fails (the executor throws, or answers
\* {error: ...}) the Chase Outcome has success=false with an error message, the
\* merge puts neither integrity_ok nor suggested_question into context, CHASE
\* stays the only legal action and the result is not need_input.
C22_FailedCheckIsFailure ==
    [][ ( /\ pc = "absorb"
          /\ action.type = CHASE
          /\ C22_CallFailed(skill_trace.answer)
          /\ GetAvailableActions(state) = << CHASE >> )
        => /\ ~obs.success
           /\ obs.error_msg # PyNone
           /\ "integrity_ok" \notin DOMAIN state'.context
           /\ "suggested_question" \notin DOMAIN state'.context
           /\ GetAvailableActions(state') = << CHASE >>
           /\ MakeResult(state', trajectory)["status"] # "need_input" ]_vars

\* the failed planning call: the executor threw, or answered {error: ...}
C23_CallFailed(answer) == "thrown" \in DOMAIN answer \/ "error" \in DOMAIN answer

\* C23: when the planning call fails (the executor throws, or answers
\* {error: ...}) the Plan Outcome has success=false with the error, the merge puts
\* no plan into context and PLAN is legal on the next iteration.
C23_FailedPlanIsFailure ==
    [][ ( /\ pc = "absorb"
          /\ action.type = PLAN
          /\ C23_CallFailed(skill_trace.answer)
          /\ GetAvailableActions(state) = << PLAN >> )
        => /\ ~obs.success
           /\ obs.error_msg # PyNone
           /\ "plan" \notin DOMAIN state'.context
           /\ PLAN \in Range(GetAvailableActions(state')) ]_vars


\* the rewrite call answered, with an error or without a rewritten query
C24_NoRewrittenQuery(answer) ==
    /\ answer # EmptyDict
    /\ "thrown" \notin DOMAIN answer
    /\ "step5_rewritten_query" \notin DOMAIN answer

\* the query RewriteSkill was given: the parameter override, else state.query
C24_QueryGiven == DictGet(action.parameters.val, "query", state.query)

\* what the rewriter hands to the skill: nothing on an error answer
C24_Response(answer) == IF "error" \in DOMAIN answer THEN EmptyDict ELSE answer

\* C24 (amended): when the rewrite call returns an error or a response without a
\* rewritten query, the Rewrite Outcome is still successful with rewritten_query
\* equal to the query it was given (the parameter override, else state.query);
\* entities and intent are those of the response where it carries them and
\* empty where it does not (always empty on an error); after the merge CHASE is
\* the legal action.
C24_PassThrough ==
    [][ ( /\ pc = "absorb"
          /\ action.type = REWRITE
          /\ C24_NoRewrittenQuery(skill_trace.answer)
          /\ GetAvailableActions(state) = << REWRITE >> )
        => LET res == C24_Response(skill_trace.answer) IN
           /\ obs.success
           /\ obs.data[1]["rewritten_query"] = C24_QueryGiven
           /\ obs.data[1]["entities"] = DictGet(res, "step2_entities", EntitiesEmpty)
           /\ obs.data[1]["intent"] = DictGet(res, "step1_intent", IntentEmpty)
           /\ "error" \in DOMAIN skill_trace.answer =>
                /\ obs.data[1]["entities"] = EntitiesEmpty
                /\ obs.data[1]["intent"] = IntentEmpty
           /\ state'.context["rewritten_query"] = C24_QueryGiven
           /\ GetAvailableActions(state') = << CHASE >> ]_vars

\* C24 as stated: entities and intent are empty in every such Outcome
C24_PassThroughEmpty ==
    [][ ( /\ pc = "absorb"
          /\ action.type = REWRITE
          /\ C24_NoRewrittenQuery(skill_trace.answer)
          /\ GetAvailableActions(state) = << REWRITE >> )
        => /\ obs.success
           /\ obs.data[1]["rewritten_query"] = C24_QueryGiven
           /\ obs.data[1]["entities"] = EntitiesEmpty
           /\ obs.data[1]["intent"] = IntentEmpty
           /\ GetAvailableActions(state') = << CHASE >> ]_vars

C24_Witness ==
    /\ pc = "end"
    /\ action.type = REWRITE
    /\ action.parameters = Mapping([ query |-> "Q2" ])
    /\ "error" \in DOMAIN skill_trace.answer
    /\ state.step_count = 1
    /\ state.query = UserQuery
    /\ state.context = [ rewritten_query |-> "Q2", entities |-> EntitiesEmpty,
                         intent |-> IntentEmpty, collected_data |-> EmptyDict ]
    /\ available = << CHASE >>


\* a SEARCH call whose collector ran to its end
C25_Collected ==
    /\ pc \in { "absorb", "next", "end" }
    /\ action.type \in { SEARCH_DB, SEARCH_WEB }
    /\ obs.data # None

\* the item was successfully collected: local content was accepted, or the web
\* search found content
C25_ItemCollected(item) == item.entry.source = "RAG" \/ item.web = Some(WebFound)

C26_Rank(call) == IF call = "rag" THEN 1 ELSE IF call = "eval" THEN 2 ELSE 3

\* C26: for each plan item, local retrieval runs first when the item's source
\* preference includes rag (or is unspecified) and the engine is ready; its
\* content is accepted with source RAG only when the quality evaluation judges it
\* sufficient; the web search is invoked if and only if local content was not
\* accepted; a web_only item never triggers local retrieval; every item ends with
\* exactly one entry keyed by its description.
C26_SourceOrder ==
    C25_Collected
    => LET items == skill_trace.items
           tasks == skill_trace.plan.required_info
           data == obs.data[1]["collected_data"]
       IN  /\ DOMAIN items = DOMAIN tasks
           /\ DOMAIN data = { tasks[i].desc : i \in DOMAIN tasks }
           /\ \A i \in DOMAIN items :
                LET it == items[i]
                    source_pref == DictGet(tasks[i], "source", "rag")
                    has(c) == \E k \in DOMAIN it.calls : it.calls[k] = c
                    accepted == it.entry.source = "RAG"
                IN  /\ it.desc = tasks[i].desc
                    /\ \A j, k \in DOMAIN it.calls :
                         j < k => C26_Rank(it.calls[j]) < C26_Rank(it.calls[k])
                    /\ (source_pref \in { "rag", "rag_then_web" } /\ skill_trace.rag_ready)
                         => it.calls[1] = "rag"
                    /\ has("rag") => source_pref # "web_only" /\ skill_trace.rag_ready
                    /\ has("eval") => has("rag")
                    /\ accepted <=> ( /\ has("eval")
                                      /\ DictGet(it.eval[1], "is_sufficient", PyNone) = PyTrue )
                    /\ accepted => it.entry.data = it.rag[1]
                    /\ has("web") <=> ~accepted
                    /\ (\A j \in DOMAIN items : items[j].desc = it.desc => j = i)
                         => data[it.desc] = it.entry

C26_Witness ==
    /\ pc = "end"
    /\ C25_Collected
    /\ skill_trace.rag_ready
    /\ Len(skill_trace.items) = MaxItems + 1
    /\ skill_trace.items[1].calls = << "rag", "eval", "web" >>
    /\ skill_trace.items[1].entry.source = "Web"
    /\ skill_trace.items[2].calls = << "web" >>
    /\ DOMAIN state.context["collected_data"] = 1 .. MaxItems + 1

\* C27: an item for which local retrieval was not accepted and the web search
\* failed or found nothing is recorded with source Failed, never with source Web.
C27_FailedWebIsFailed ==
    C25_Collected
    => \A i \in DOMAIN skill_trace.items :
         LET it == skill_trace.items[i] IN
         it.web \in { Some(WebNothing), Some(WebFailure) }
           => /\ it.entry.source = "Failed"
              /\ obs.data[1]["collected_data"][it.desc].source # "Web"

\* the SEARCH Action carries force_web=true
C28_ForceWeb ==
    /\ action.type \in { SEARCH_DB, SEARCH_WEB }
    /\ action.parameters.mapping
    /\ DictGet(action.parameters.val, "force_web", PyFalse) = PyTrue

\* C28: a SEARCH with force_web=true runs the collector on a copy of the plan in
\* which every item's source is web_only and which is the plan otherwise, no item
\* uses local retrieval, and context.plan and its items are as before the call.
C28_ForceWebOnCopy ==
    [][ ( /\ pc = "call"
          /\ C28_ForceWeb
          /\ pc' = "absorb"
          /\ skill_trace'.plan # EmptyDict )
        => LET plan == state.context["plan"]
               used == skill_trace'.plan
           IN  /\ DOMAIN used.required_info = DOMAIN plan.required_info
               /\ \A i \in DOMAIN used.required_info :
                    /\ DictGet(used.required_info[i], "source", "rag") = "web_only"
                    /\ \A k \in DOMAIN plan.required_info[i] \ { "source" } :
                         used.required_info[i][k] = plan.required_info[i][k]
               /\ \A i \in DOMAIN skill_trace'.items :
                    \A k \in DOMAIN skill_trace'.items[i].calls :
                        skill_trace'.items[i].calls[k] = "web"
               /\ state'.context["plan"] = plan ]_vars

C28_Witness ==
    /\ pc = "end"
    /\ C28_ForceWeb
    /\ skill_trace.rag_ready
    /\ Len(skill_trace.items) >= 1
    /\ state.context["plan"].required_info[1] = PlanItem(1, "rag")
    /\ skill_trace.plan.required_info[1] = PlanItem(1, "web_only")
    /\ skill_trace.items[1].calls = << "web" >>
    /\ obs.success
    /\ state.context["collected_data"][1].source = "Web"


\* C29: no skill lets an exception escape: whatever the parameters of the Action,
\* the context left by earlier steps and the behaviour of the collaborators,
\* every call of execute returns an Outcome.
C29_ExecuteReturns ==
    [][ pc = "call" => pc' = "absorb" ]_vars

\* C30: executing a skill leaves the RunState it is given unchanged (query,
\* context, history, step_count, accumulated_reward); the state changes only in
\* _update_state, after the skill returned.
C30_SkillsLeaveState ==
    [][ /\ pc = "call" => state' = state
        /\ state' # state => pc = "absorb" /\ state' = UpdateState(state, action, obs) ]_vars

C30_Witness ==
    /\ pc = "absorb"
    /\ C28_ForceWeb
    /\ obs.success
    /\ state.step_count = 0
    /\ state.history = << >>
    /\ state.context["plan"].required_info[1] = PlanItem(1, "rag")
    /\ skill_trace.plan.required_info[1] = PlanItem(1, "web_only")
    /\ state.context["collected_data"] = EmptyDict


(***************************************************************************)
(* Properties of whole runs.                                               *)
(***************************************************************************)
\* a skill is being executed, or has returned and is not merged yet
C34_InStep == pc \in { "exec", "merge", "raised" }

\* C34: every skill the loop invokes is the one of an action type in the legal
\* set computed from the context at the start of the iteration; hence REWRITE is
\* the first skill executed, CHASE never runs before rewritten_query is set, PLAN
\* never before a CHASE Outcome was merged, SEARCH and SUMMARIZE never before
\* plan is set.
C34_LegalSkills ==
    /\ C34_InStep =>
         LET ctx == state.context
             merged(a) == \E k \in DOMAIN state.history :
                             state.history[k].action = a /\ state.history[k].success
         IN  /\ available = GetAvailableActions(state)
             /\ action.type \in Range(available)
             /\ state.history = << >> => action.type = REWRITE
             /\ action.type = CHASE => "rewritten_query" \in DOMAIN ctx /\ merged(REWRITE)
             /\ action.type = PLAN => "integrity_ok" \in DOMAIN ctx /\ merged(CHASE)
             /\ action.type \in { SEARCH_DB, SEARCH_WEB, SUMMARIZE } =>
                  "plan" \in DOMAIN ctx /\ merged(PLAN)
    /\ state.history # << >> => state.history[1].action = REWRITE

C34_Witness ==
    /\ pc = "merge"
    /\ action.type = SUMMARIZE
    /\ Len(state.history) = 4
    /\ state.history[1].action = REWRITE
    /\ state.history[2].action = CHASE
    /\ state.history[3].action = PLAN
    /\ state.history[4].action = SEARCH_WEB
    /\ \A k \in 1 .. 4 : state.history[k].success

\* a SEARCH Outcome with collected data has been merged in this run
C35_SearchMerged ==
    \E k \in DOMAIN state.history :
        state.history[k].action \in { SEARCH_DB, SEARCH_WEB } /\ state.history[k].success

\* C35: SUMMARIZE is never legal, and never executed, before a SEARCH Outcome with
\* collected data has been merged in the run; right after a successful PLAN the
\* legal set is exactly SEARCH_DB, SEARCH_WEB.
C35_SummarizeAfterSearch ==
    /\ SUMMARIZE \in Range(GetAvailableActions(state)) => C35_SearchMerged
    /\ (C34_InStep /\ action.type = SUMMARIZE) => C35_SearchMerged
    /\ ( /\ state.history # << >>
         /\ state.history[Len(state.history)].action = PLAN
         /\ state.history[Len(state.history)].success )
       => GetAvailableActions(state) = << SEARCH_DB, SEARCH_WEB >>

\* what the state snapshot of record i of the trajectory shows now: its context
\* and history are the run's live objects
C36_Snapshot(i) ==
    [ trajectory[i].state EXCEPT !.context = state.context, !.history = state.history ]

\* C36: each executed step appends one trajectory record, so the trajectory has
\* step_count records, and the snapshot of record i shows the RunState as it was
\* at the end of step i: no later step changes a snapshot already recorded.
C36_SnapshotsFrozen ==
    [][ /\ Len(trajectory') = state'.step_count
        /\ \A i \in DOMAIN trajectory' :
             /\ C36_Snapshot(i)'.step_count = i
             /\ Len(C36_Snapshot(i)'.history) = i
        /\ \A i \in DOMAIN trajectory : C36_Snapshot(i)' = C36_Snapshot(i) ]_vars

\* the run ended through the is_complete exit
C37_CompleteExit ==
    /\ pc = "done"
    /\ trajectory # << >>
    /\ C16_Complete(trajectory[Len(trajectory)].obs)

\* C37: Summarize returns success with is_complete only when the synthesis
\* produced a report: a run that ends through the is_complete exit has the
\* synthesized report text in context.report and in the result, and a failed
\* synthesis call is reported as a failed Outcome.
C37_ReportPresent ==
    /\ C37_CompleteExit =>
         /\ "report" \in DOMAIN state.context
         /\ state.context["report"] \notin { PyNone, "" }
         /\ result["final_report"] = state.context["report"]
    /\ ( /\ pc = "merge"
         /\ action.type = SUMMARIZE
         /\ "error" \in DOMAIN summarizer.result.report )
       => ~obs.success

\* C38: PLAN is invoked only when context.integrity_ok is true, and whenever
\* integrity_ok is false suggested_question is present and plan, collected search
\* results and report are absent.
C38_PlanNeedsIntegrity ==
    /\ (C34_InStep /\ action.type = PLAN)
         => DictGet(state.context, "integrity_ok", PyNone) = PyTrue
    /\ DictGet(state.context, "integrity_ok", PyNone) = PyFalse
         => /\ "suggested_question" \in DOMAIN state.context
            /\ "plan" \notin DOMAIN state.context
            /\ "report" \notin DOMAIN state.context
            /\ DictGet(state.context, "collected_data", EmptyDict) = EmptyDict

C38_Witness ==
    /\ pc = "merge"
    /\ action.type = PLAN
    /\ obs.success
    /\ state.context["integrity_ok"] = PyTrue
    /\ "suggested_question" \notin DOMAIN state.context
    /\ Len(state.history) = 2


\* C39: when a successful Outcome with collected_data is merged, every item key
\* of the payload gets the payload's entry, whatever entry context.collected_data
\* had for it (last writer wins), and the entries of the keys absent from the
\* payload stay as they were.
C39_LastWriterWins ==
    [][ ( /\ pc = "fold"
          /\ obs'.success
          /\ Truthy(obs'.data)
          /\ "collected_data" \in DOMAIN obs'.data[1] )
        => LET old == DictGet(state.context, "collected_data", EmptyDict)
               new == obs'.data[1]["collected_data"]
               now == state'.context["collected_data"]
           IN  /\ DOMAIN now = (DOMAIN old) \cup (DOMAIN new)
               /\ \A k \in DOMAIN new : now[k] = new[k]
               /\ \A k \in (DOMAIN old) \ (DOMAIN new) : now[k] = old[k] ]_vars

\* a context with the entries of two items, from which the merge of a payload
\* that has one of them with another source replaces that entry only
C39_Witness ==
    /\ pc = "fold"
    /\ state.step_count = 1
    /\ DictGet(state.context, "collected_data", EmptyDict)
         = [ k \in FuzzItems |-> RagEntry ]
    /\ ENABLED ( /\ FuzzMerge
                 /\ obs'.success
                 /\ Truthy(obs'.data)
                 /\ DictGet(obs'.data[1], "collected_data", EmptyDict)
                      = [ k \in { "revenue 2023" } |-> WebEntry ]
                 /\ state'.context["collected_data"]
                      = [ k \in FuzzItems |-> IF k = "revenue 2023" THEN WebEntry ELSE RagEntry ] )


(***************************************************************************)
(* Properties of the clarification loop of main().                         *)
(***************************************************************************)
\* C31: after a run returned need_input and the user answered, the next run
\* starts on the previous query followed by the answer, with a new RunState
\* (empty context and history, step_count 0, empty trajectory): nothing of the
\* previous run's context carries over, and the query is always the first
\* question followed by the answers given so far, in order.
C31_FreshRun ==
    [][ /\ state'.query[1] = UserQuery
        /\ (pc = "done" /\ pc' = "loop") =>
             /\ result["status"] = "need_input"
             /\ "suggested_question" \in DOMAIN state.context
             /\ Len(state'.query) = Len(state.query) + 1
             /\ SubSeq(state'.query, 1, Len(state.query)) = state.query
             /\ state'.query[Len(state'.query)] \in MainAnswers
             /\ state'.context = EmptyDict
             /\ state'.history = << >>
             /\ state'.step_count = 0
             /\ state'.accumulated_reward = 0
             /\ trajectory' = << >>
             /\ GetAvailableActions(state') = << REWRITE >>
        /\ ~(pc = "done" /\ pc' = "loop") => state'.query = state.query ]_vars

C31_Witness ==
    /\ pc = "loop"
    /\ state = AgentState(<< UserQuery, "A2", "A1" >>, EmptyDict, << >>, 0, 0)
    /\ result["status"] = "need_input"
    /\ result["clarification_question"] = "which year?"
    /\ trajectory = << >>

\* C40: the number of consecutive clarification rounds driven for one initial
\* question is at most the chaser's max_chase_rounds.
C40_RoundsBounded == Len(state.query) - 1 <= MaxChaseRounds

\* C32: the retrieval engine of a collector is initialized at most once: once a
\* collector is ready, no caller constructs an engine for it again, and the
\* engine it holds stays the one that made it ready
C32_InitializedOnce ==
    [][ \A t \in DOMAIN collector :
          collector[t].rag_ready => collector'[t] = collector[t] ]_vars

\* the RunState a run reaches from its query by its first n decisions and Outcomes
RECURSIVE C33_Fold(_, _, _)
C33_Fold(query, traj, n) ==
    IF n = 0 THEN AgentState(query, EmptyDict, << >>, 0, 0)
    ELSE UpdateState(C33_Fold(query, traj, n - 1), traj[n].action, traj[n].obs)

\* C33: of two interleaved process() calls each works on its own RunState: a
\* step of one run leaves the state, the trajectory and the result of the other
\* as they were; the state of a run is its query folded over its own decisions
\* and Outcomes, and its result is made from its own state and trajectory
C33_OwnRunState ==
    [][ \A r \in Runs :
          /\ pc'[r] = pc[r] =>
                /\ state'[r] = state[r]
                /\ trajectory'[r] = trajectory[r]
                /\ result'[r] = result[r]
          /\ state'[r] = C33_Fold(TwoQuery(r), trajectory'[r], Len(trajectory'[r]))
          /\ pc'[r] = "done" => result'[r] = MakeResult(state'[r], trajectory'[r]) ]_vars

\* both runs are suspended inside a skill, the first in its summary with data
\* collected, the second waiting for the engine with only its plan
C33_Witness ==
    /\ pc[1] = "exec" /\ action[1].type = SUMMARIZE
    /\ pc[2] = "build"
    /\ state[1].query = "Q1" /\ state[2].query = "Q2"
    /\ state[1].step_count = 4 /\ state[2].step_count = 3
    /\ "collected_data" \in DOMAIN state[1].context
    /\ DictGet(state[2].context, "collected_data", EmptyDict) = EmptyDict

====
